---- MODULE Spec2Model ----
(***************************************************************************)
(* ResumeMatch: the matching and scoring engine (utils/nlp_analyzer.py,    *)
(* utils/semantic_analyzer.py) and the request flow that drives it         *)
(* (app.py), as a state machine.                                           *)
(*                                                                         *)
(* Texts are TLA+ strings, handled character by character as the code's    *)
(* regular expressions and substring tests handle them.  Percentages are   *)
(* exact rationals [n, d]; round(x, 1) yields an integer number of tenths. *)
(* The two libraries the engine calls (the spaCy pipeline and sklearn's    *)
(* TfidfVectorizer / cosine_similarity) are not code of the repository: a  *)
(* call to them returns an answer drawn from a bounded set of the answers  *)
(* the library can give.                                                   *)
(***************************************************************************)
EXTENDS Integers, Sequences, FiniteSets, TLC

(***************************************************************************)
(* Characters and strings                                                  *)
(***************************************************************************)

LowerLetters == "abcdefghijklmnopqrstuvwxyz"
UpperLetters == "ABCDEFGHIJKLMNOPQRSTUVWXYZ"
Digits == "0123456789"

CharAt(s, i) == SubSeq(s, i, i)

CharsOf(s) == { CharAt(s, i) : i \in 1..Len(s) }

\* Python's `sub in s` on strings.
Contains(sub, s) ==
    \E i \in 1..(Len(s) - Len(sub) + 1) : SubSeq(s, i, i + Len(sub) - 1) = sub

\* \s of the re module, over the characters the inputs use.
IsSpace(c) == c \in {" ", "\n", "\t"}

LetterSet == CharsOf(LowerLetters) \cup CharsOf(UpperLetters)

UpperSet == CharsOf(UpperLetters)

AlnumSet == LetterSet \cup CharsOf(Digits)

IsLetter(c) == c \in LetterSet

IsAlnum(c) == c \in AlnumSet

\* \w of the re module.
IsWordChar(c) == IsAlnum(c) \/ c = "_"

LowerChar(c) ==
    IF c \in UpperSet
    THEN CharAt(LowerLetters, CHOOSE i \in 1..Len(UpperLetters) : CharAt(UpperLetters, i) = c)
    ELSE c

RECURSIVE lower(_)
\* str.lower(), one half of s after the other.
lower(s) ==
    IF Len(s) <= 1 THEN LowerChar(s)
    ELSE lower(SubSeq(s, 1, Len(s) \div 2)) \o lower(SubSeq(s, Len(s) \div 2 + 1, Len(s)))

RECURSIVE lstrip(_)
lstrip(s) == IF s # "" /\ IsSpace(CharAt(s, 1)) THEN lstrip(Tail(s)) ELSE s

RECURSIVE rstrip(_)
rstrip(s) ==
    IF s # "" /\ IsSpace(CharAt(s, Len(s))) THEN rstrip(SubSeq(s, 1, Len(s) - 1)) ELSE s

\* str.strip()
strip(s) == rstrip(lstrip(s))

RECURSIVE CollapsedSpan(_, _, _)
\* What re.sub(r'\s+', ' ', s) leaves of the positions a..b of s: the first
\* character of a run of whitespace becomes a blank, the others vanish.
CollapsedSpan(s, a, b) ==
    IF a > b THEN ""
    ELSE IF a = b
    THEN IF ~IsSpace(CharAt(s, a)) THEN CharAt(s, a)
         ELSE IF a > 1 /\ IsSpace(CharAt(s, a - 1)) THEN "" ELSE " "
    ELSE CollapsedSpan(s, a, (a + b) \div 2) \o CollapsedSpan(s, (a + b) \div 2 + 1, b)

\* re.sub(r'\s+', ' ', s): every maximal run of whitespace becomes one space.
CollapseSpaces(s) == CollapsedSpan(s, 1, Len(s))

RECURSIVE BlankSpecials(_)
\* re.sub(r'[^\w\s-]', ' ', s), one half of s after the other.
BlankSpecials(s) ==
    IF s = "" THEN ""
    ELSE IF Len(s) = 1
    THEN IF IsWordChar(s) \/ IsSpace(s) \/ s = "-" THEN s ELSE " "
    ELSE BlankSpecials(SubSeq(s, 1, Len(s) \div 2))
         \o BlankSpecials(SubSeq(s, Len(s) \div 2 + 1, Len(s)))

RECURSIVE InOrder(_)
\* A set of [text, first, last] runs as a sequence in text order.
InOrder(runs) ==
    IF runs = {} THEN <<>>
    ELSE LET r == CHOOSE x \in runs : \A y \in runs : x.first <= y.first
         IN <<r>> \o InOrder(runs \ {r})

\* The maximal runs of s whose characters satisfy In, in text order, each
\* as [text, first, last]: a run begins where a character satisfies In and
\* the one before it does not, and ends before the next that does not.
Runs(In(_), s) ==
    LET begins == { a \in 1..Len(s) :
                      In(CharAt(s, a)) /\ (a = 1 \/ ~In(CharAt(s, a - 1))) }
        end(a) == CHOOSE b \in a..Len(s) :
                      /\ \A k \in a..b : In(CharAt(s, k))
                      /\ (b = Len(s) \/ ~In(CharAt(s, b + 1)))
    IN InOrder({ [text |-> SubSeq(s, a, end(a)), first |-> a, last |-> end(a)] :
                   a \in begins })

RECURSIVE SeqToSet(_)
SeqToSet(q) == IF q = <<>> THEN {} ELSE {Head(q)} \cup SeqToSet(Tail(q))

\* The maximal runs of \w characters of s.
WordRuns(s) == Runs(IsWordChar, s)

\* set(re.findall(r'\b\w+\b', s))
WordSet(s) == { r.text : r \in SeqToSet(WordRuns(s)) }

\* re.findall(r'\b' + term + r'\b', s) is not empty, for a term that begins
\* and ends with a word character.
OccursAsWord(term, s) ==
    \E i \in 1..(Len(s) - Len(term) + 1) :
        /\ SubSeq(s, i, i + Len(term) - 1) = term
        /\ (i = 1 \/ ~IsWordChar(CharAt(s, i - 1)))
        /\ (i + Len(term) - 1 = Len(s) \/ ~IsWordChar(CharAt(s, i + Len(term))))

\* len(s.split()): the number of maximal runs of non-whitespace.
NumWords(s) ==
    Cardinality({ i \in 1..Len(s) :
        /\ ~IsSpace(CharAt(s, i))
        /\ (i = 1 \/ IsSpace(CharAt(s, i - 1))) })

RECURSIVE Join(_, _)
\* sep.join(parts)
Join(sep, parts) ==
    IF parts = <<>> THEN ""
    ELSE IF Len(parts) = 1 THEN parts[1]
    ELSE parts[1] \o sep \o Join(sep, Tail(parts))

(***************************************************************************)
(* The texts the model explores                                            *)
(***************************************************************************)

\* The passages the texts of the model are made of.
Passages ==
    << "Python and SQL developer.",
       "Strong leadership, teamwork!",
       "The and of the.",
       "AI writing",
       "Project management of software systems?" >>

\* A text holds at most this many passages.
MaxPassages == 2

RECURSIVE Pick(_, _)
\* The passages whose index is in chosen, in the order of Passages.
Pick(i, chosen) ==
    IF i > Len(Passages) THEN <<>>
    ELSE (IF i \in chosen THEN <<Passages[i]>> ELSE <<>>) \o Pick(i + 1, chosen)

TextPool ==
    { Join(" ", Pick(1, chosen)) :
        chosen \in { c \in SUBSET (1..Len(Passages)) : Cardinality(c) <= MaxPassages } }

(***************************************************************************)
(* The spaCy pipeline (library): doc = nlp(text)                           *)
(*                                                                         *)
(* A doc is [ents, noun_chunks, sents, tokens]; an entity is [text,        *)
(* label_], a token [text, lemma_, pos_, is_stop, is_punct].  The pipeline *)
(* answers in one of a few styles, each an answer the statistical model    *)
(* can give for a text.  nlp raises ValueError on a text longer than       *)
(* nlp.max_length, whatever the style.                                     *)
(***************************************************************************)

IsTokenChar(c) == IsWordChar(c) \/ c = "-"

IsMark(c) == ~IsTokenChar(c) /\ ~IsSpace(c)

\* Every character of s that satisfies In, alone, as [text, first, last].
Singles(In(_), s) ==
    { [text |-> CharAt(s, i), first |-> i, last |-> i] :
        i \in { k \in 1..Len(s) : In(CharAt(s, k)) } }

\* The tokens of s in text order: the maximal runs of word characters and
\* hyphens, and every other non-blank character alone.
TokenRuns(s) ==
    InOrder(SeqToSet(Runs(IsTokenChar, s)) \cup Singles(IsMark, s))

SpacyStopWords == {"the", "and", "of", "a", "an", "in", "with", "for", "to", "is"}

IsPunctToken(t) == \A c \in CharsOf(t) : ~IsWordChar(c)

\* The lemma the model gives a token: a plural noun loses its final s.
LemmaOf(t) ==
    IF Len(t) > 3 /\ CharAt(t, Len(t)) = "s" /\ CharAt(t, Len(t) - 1) # "s"
    THEN SubSeq(t, 1, Len(t) - 1)
    ELSE t

TokenOf(t) ==
    [text |-> t, lemma_ |-> LemmaOf(t),
     pos_ |-> IF IsPunctToken(t) THEN "PUNCT"
              ELSE IF lower(t) \in SpacyStopWords THEN "DET" ELSE "NOUN",
     is_stop |-> lower(t) \in SpacyStopWords,
     is_punct |-> IsPunctToken(t)]

IsContentToken(t) == ~IsPunctToken(t) /\ lower(t) \notin SpacyStopWords

RECURSIVE Chunks(_, _, _, _, _)
\* The noun phrases of the "chunks" style: the maximal spans of consecutive
\* tokens none of which is a stop word or punctuation, in text order.  toks
\* are the tokens still to read, from and to the span being read.
Chunks(s, toks, from, to, acc) ==
    LET flushed == IF from = 0 THEN acc ELSE Append(acc, SubSeq(s, from, to))
    IN IF toks = <<>> THEN flushed
       ELSE IF IsContentToken(Head(toks).text)
            THEN Chunks(s, Tail(toks), IF from = 0 THEN Head(toks).first ELSE from,
                        Head(toks).last, acc)
            ELSE Chunks(s, Tail(toks), 0, 0, flushed)

IsSentenceEnd(c) == c \in {".", "!", "?"}

NotSentenceEnd(c) == ~IsSentenceEnd(c)

RECURSIVE Sents(_, _, _, _)
\* The sentences the pipeline finds: each runs up to and including its run
\* of '.', '!' or '?' characters.
Sents(s, i, from, acc) ==
    IF i > Len(s)
    THEN IF from > Len(s) THEN acc ELSE Append(acc, SubSeq(s, from, Len(s)))
    ELSE IF IsSentenceEnd(CharAt(s, i)) /\ (i = Len(s) \/ ~IsSentenceEnd(CharAt(s, i + 1)))
         THEN Sents(s, i + 1, i + 1, Append(acc, SubSeq(s, from, i)))
         ELSE Sents(s, i + 1, from, acc)

RECURSIVE Texts(_)
Texts(runs) == IF runs = <<>> THEN <<>> ELSE <<Head(runs).text>> \o Texts(Tail(runs))

ParseStyles == {"tokens", "chunks", "entity"}

\* What the pipeline of a process can be: installed and answering in one of
\* the styles, not installed ("absent"), or installed and unloadable
\* ("broken": spacy.load raises something else than OSError).
Pipelines == ParseStyles \cup {"absent", "broken"}

\* nlp.max_length, scaled to the texts of the model (spaCy's default is
\* 1,000,000 characters).
max_length == 60

NoDoc == [raised |-> TRUE]

\* nlp(text) answering in the given style.
nlp_call(text, style) ==
    IF Len(text) > max_length THEN NoDoc
    ELSE [raised |-> FALSE,
          ents |-> IF style = "entity" /\ strip(text) # ""
                   THEN {[text |-> text, label_ |-> "ORG"],
                         [text |-> SubSeq(text, 1, 1), label_ |-> "PERSON"]}
                   ELSE {},
          noun_chunks |-> IF style = "chunks"
                          THEN Chunks(text, TokenRuns(text), 0, 0, <<>>)
                          ELSE <<>>,
          sents |-> Sents(text, 1, 1, <<>>),
          tokens |-> { TokenOf(r.text) : r \in SeqToSet(TokenRuns(text)) }]

(***************************************************************************)
(* ResumeJobMatcher: keyword extraction and categorization                 *)
(***************************************************************************)

\* An exception leaving a function, in place of its return value.
Raised == [raised |-> TRUE]

clean_text(text) == lower(BlankSpecials(CollapseSpaces(strip(text))))

\* The alternatives of the four tech_patterns; node\.?js matches both
\* spellings.
tech_patterns ==
    {"python", "java", "javascript", "react", "angular", "vue", "nodejs", "node.js",
     "typescript", "html", "css", "sql", "mysql", "postgresql", "mongodb", "redis",
     "docker", "kubernetes", "aws", "azure", "gcp", "git", "github", "linux",
     "windows", "macos",
     "machine learning", "data science", "artificial intelligence", "deep learning",
     "neural networks", "tensorflow", "pytorch", "scikit-learn", "pandas", "numpy",
     "project management", "agile", "scrum", "kanban", "jira", "confluence", "slack",
     "microsoft office", "excel", "powerpoint", "word",
     "communication", "leadership", "teamwork", "problem solving", "analytical",
     "creative", "detail oriented", "time management"}

stop_words ==
    {"the", "and", "or", "but", "in", "on", "at", "to", "for", "of", "with", "by",
     "is", "are", "was", "were", "been", "have", "has", "had", "do", "does", "did",
     "will", "would", "could", "should", "may", "might", "must", "can", "this",
     "that", "these", "those", "a", "an"}

\* re.findall(r'\b[a-zA-Z][a-zA-Z0-9]*\b', s): the \w runs made of letters
\* and digits only that begin with a letter.
AlnumWords(s) ==
    { r.text : r \in
        { q \in SeqToSet(WordRuns(s)) :
            /\ IsLetter(CharAt(s, q.first))
            /\ \A k \in q.first..q.last : IsAlnum(CharAt(s, k)) } }

extract_keywords_basic(text) ==
    LET text_lower == lower(text)
    IN { t \in tech_patterns : OccursAsWord(t, text_lower) }
       \cup { w \in AlnumWords(text_lower) : Len(w) > 2 /\ w \notin stop_words }

KeptEntityLabels == {"ORG", "PRODUCT", "WORK_OF_ART", "LANGUAGE", "EVENT"}

\* extract_keywords_spacy: has_nlp is `self.nlp` being loaded, doc the
\* pipeline's answer for the text (the call raises when the pipeline did).
extract_keywords_spacy(has_nlp, text, doc) ==
    IF ~has_nlp THEN extract_keywords_basic(text)
    ELSE { strip(lower(e.text)) : e \in { x \in doc.ents : x.label_ \in KeptEntityLabels } }
         \cup { c \in { strip(lower(x)) : x \in SeqToSet(doc.noun_chunks) } :
                  Len(c) > 2 /\ NumWords(c) <= 3 }
         \cup { lower(t.lemma_) : t \in
                  { x \in doc.tokens :
                      /\ x.pos_ \in {"NOUN", "PROPN"}
                      /\ ~x.is_stop /\ ~x.is_punct
                      /\ Len(x.text) > 2 } }

technical_terms ==
    {"python", "java", "javascript", "react", "angular", "vue", "nodejs", "typescript",
     "html", "css", "sql", "mysql", "postgresql", "mongodb", "redis", "docker",
     "kubernetes", "aws", "azure", "gcp", "git", "github", "linux", "windows",
     "machine learning", "data science", "ai", "tensorflow", "pytorch", "pandas",
     "numpy", "scikit-learn", "excel", "powerpoint", "word", "office"}

soft_skill_terms ==
    {"communication", "leadership", "teamwork", "management", "analytical",
     "creative", "problem solving", "time management", "organization",
     "presentation", "writing", "research"}

IsTechnical(keyword) == \E tech \in technical_terms : Contains(tech, lower(keyword))

IsSoft(keyword) == \E soft \in soft_skill_terms : Contains(soft, lower(keyword))

\* The categorization with the soft-skill test made first.
CategoryOf_soft_first(keyword) ==
    IF IsSoft(keyword) THEN "soft_skills"
    ELSE IF IsTechnical(keyword) THEN "technical"
    ELSE "general"

\* The if / elif / else of the categorization loop, for one keyword.
CategoryOf(keyword) ==
    IF IsTechnical(keyword) THEN "technical"
    ELSE IF IsSoft(keyword) THEN "soft_skills"
    ELSE "general"

\* A categorization in which the category of a keyword depends on the
\* other keywords of the text: a soft skill is general in a text that has
\* technical keywords.
Categorize_relative(all_keywords) ==
    LET technical == { k \in all_keywords : CategoryOf(k) = "technical" }
        soft == { k \in all_keywords : CategoryOf(k) = "soft_skills" /\ technical = {} }
    IN [raised |-> FALSE,
        technical |-> technical,
        soft_skills |-> soft,
        general |-> all_keywords \ (technical \cup soft),
        all |-> all_keywords]

\* The three category sets and `all`, from the extracted keywords.
Categorize(all_keywords) ==
    [raised |-> FALSE,
     technical |-> { k \in all_keywords : CategoryOf(k) = "technical" },
     soft_skills |-> { k \in all_keywords : CategoryOf(k) = "soft_skills" },
     general |-> { k \in all_keywords : CategoryOf(k) = "general" },
     all |-> all_keywords]

\* extract_skills_and_keywords: style is the style the pipeline answers in
\* when it is loaded.  The value is Raised when the pipeline call raised:
\* nothing on the way catches it.
extract_skills_and_keywords(has_nlp, text, style) ==
    LET cleaned_text == clean_text(text)
    IN IF has_nlp
       THEN LET doc == nlp_call(cleaned_text, style)
            IN IF doc.raised THEN Raised
               ELSE Categorize(extract_keywords_spacy(has_nlp, cleaned_text, doc))
       ELSE Categorize(extract_keywords_basic(cleaned_text))

\* extract_skills_and_keywords for the texts of TextPool, computed once.
KeywordTable ==
    [has_nlp \in BOOLEAN |->
        [text \in TextPool |->
            [style \in Pipelines |-> extract_skills_and_keywords(has_nlp, text, style)]]]

\* The call self.extract_skills_and_keywords(text).
KeywordsOf(has_nlp, text, style) ==
    IF text \in TextPool THEN KeywordTable[has_nlp][text][style]
    ELSE extract_skills_and_keywords(has_nlp, text, style)

(***************************************************************************)
(* Numbers.  A percentage the code holds as a float is the exact rational  *)
(* [n, d], d > 0; round(x, 1) is the integer number of tenths nearest to   *)
(* x, a tie going to the even one.  A cosine similarity is an integer      *)
(* number of hundredths.                                                   *)
(***************************************************************************)

Q(n, d) == [n |-> n, d |-> d]

QLess(a, b) == a.n * b.d < b.n * a.d

QLeq(a, b) == a.n * b.d <= b.n * a.d

QEq(a, b) == a.n * b.d = b.n * a.d

QAdd(a, b) == Q(a.n * b.d + b.n * a.d, a.d * b.d)

QMin(a, b) == IF QLeq(a, b) THEN a ELSE b

Min(a, b) == IF a <= b THEN a ELSE b

Max(a, b) == IF a >= b THEN a ELSE b

\* round(q, 1), in tenths, for q >= 0.
\* The tenths of q cut off, not rounded.
Round1_truncated(q) == (10 * q.n) \div q.d

Round1(q) ==
    LET whole == (10 * q.n) \div q.d
        rest == (10 * q.n) % q.d
    IN IF 2 * rest > q.d THEN whole + 1
       ELSE IF 2 * rest < q.d THEN whole
       ELSE IF whole % 2 = 0 THEN whole ELSE whole + 1

(***************************************************************************)
(* SemanticResumeAnalyzer                                                  *)
(***************************************************************************)

\* self.skill_synonyms, in the dict's order.
skill_synonyms ==
    << [main_skill |-> "python",
        synonyms |-> <<"python programming", "python development", "python scripting">>],
       [main_skill |-> "javascript",
        synonyms |-> <<"js", "javascript programming", "frontend development">>],
       [main_skill |-> "machine learning",
        synonyms |-> <<"ml", "artificial intelligence", "ai", "data science">>],
       [main_skill |-> "project management",
        synonyms |-> <<"pm", "project coordination", "project leadership">>],
       [main_skill |-> "communication",
        synonyms |-> <<"verbal communication", "written communication", "interpersonal skills">>],
       [main_skill |-> "leadership",
        synonyms |-> <<"team leadership", "team management", "leading teams">>],
       [main_skill |-> "sql",
        synonyms |-> <<"database", "database management", "data querying">>],
       [main_skill |-> "react",
        synonyms |-> <<"reactjs", "react.js", "frontend framework">>],
       [main_skill |-> "aws",
        synonyms |-> <<"amazon web services", "cloud computing", "cloud services">>] >>

RECURSIVE EnhanceFrom(_, _)
\* The loop of _enhance_with_synonyms over the entries still to visit.
EnhanceFrom(enhanced_text, entries) ==
    IF entries = <<>> THEN enhanced_text
    ELSE EnhanceFrom(IF Contains(Head(entries).main_skill, enhanced_text)
                     THEN enhanced_text \o " " \o Join(" ", Head(entries).synonyms)
                     ELSE enhanced_text,
                     Tail(entries))

_enhance_with_synonyms(text) == EnhanceFrom(lower(text), skill_synonyms)

RECURSIVE StripLonger(_, _)
\* [s.strip() for s in parts if len(s.strip()) > n]
StripLonger(parts, n) ==
    IF parts = <<>> THEN <<>>
    ELSE (IF Len(strip(Head(parts))) > n THEN <<strip(Head(parts))>> ELSE <<>>)
         \o StripLonger(Tail(parts), n)

RECURSIVE NounPhrases(_)
\* [chunk.text.strip() for chunk in doc.noun_chunks
\*  if len(chunk.text.strip()) > 3 and len(chunk.text.split()) <= 4]
NounPhrases(chunks) ==
    IF chunks = <<>> THEN <<>>
    ELSE (IF Len(strip(Head(chunks))) > 3 /\ NumWords(Head(chunks)) <= 4
          THEN <<strip(Head(chunks))>> ELSE <<>>)
         \o NounPhrases(Tail(chunks))

\* extract_sentences_and_phrases: [raised, value].  Without the pipeline the
\* text is split at the runs of '.', '!' and '?'.
extract_sentences_and_phrases(has_nlp, text0, style) ==
    LET text == CollapseSpaces(strip(text0))
    IN IF has_nlp
       THEN LET doc == nlp_call(text, style)
            IN IF doc.raised THEN Raised
               ELSE [raised |-> FALSE,
                     value |-> StripLonger(doc.sents, 10) \o NounPhrases(doc.noun_chunks)]
       ELSE [raised |-> FALSE,
             value |-> StripLonger(Texts(Runs(NotSentenceEnd, text)), 10)]

\* extract_sentences_and_phrases for the texts of TextPool, computed once.
SegmentTable ==
    [has_nlp \in BOOLEAN |->
        [text \in TextPool |->
            [style \in Pipelines |-> extract_sentences_and_phrases(has_nlp, text, style)]]]

\* The call self.extract_sentences_and_phrases(text).
SegmentsOf(has_nlp, text, style) ==
    IF text \in TextPool THEN SegmentTable[has_nlp][text][style]
    ELSE extract_sentences_and_phrases(has_nlp, text, style)

\* set(re.findall(r'\b\w+\b', text.lower())) for the texts of TextPool,
\* computed once.
WordTable == [text \in TextPool |-> WordSet(lower(text))]

LowerWordsOf(text) == IF text \in TextPool THEN WordTable[text] ELSE WordSet(lower(text))

FallbackNote == "Transformer model not available - using basic analysis"

\* _fallback_similarity_analysis
_fallback_similarity_analysis(resume_text, job_description_text) ==
    LET resume_words == LowerWordsOf(resume_text)
        job_words == LowerWordsOf(job_description_text)
        common_words == resume_words \cap job_words
        similarity == IF job_words # {}
                      THEN Q(Cardinality(common_words), Cardinality(job_words))
                      ELSE Q(0, 1)
    IN [overall_semantic_similarity |-> Q(similarity.n * 100, similarity.d),
        semantic_matches |-> <<>>,
        missing_concepts |-> <<>>,
        strong_matches |-> <<>>,
        similarity_distribution |-> [low |-> Q(70, 1), medium |-> Q(20, 1), high |-> Q(10, 1)],
        conceptual_gaps |-> <<FallbackNote>>]

\* _analyze_similarity_distribution with a medium band that stops short of
\* 0.7.
_analyze_similarity_distribution_open_band(m) ==
    LET cells == DOMAIN m
        total == Cardinality(cells)
        count(P(_)) == Cardinality({ c \in cells : P(m[c]) })
        isHigh(x) == x > 70
        isMedium(x) == x > 40 /\ x < 70
        isLow(x) == x <= 40
    IN [high |-> Q(count(isHigh) * 100, total),
        medium |-> Q(count(isMedium) * 100, total),
        low |-> Q(count(isLow) * 100, total)]

\* _analyze_similarity_distribution: m is the similarity matrix, a function
\* on (1..nr) \X (1..nj).
_analyze_similarity_distribution(m) ==
    LET cells == DOMAIN m
        total == Cardinality(cells)
        count(P(_)) == Cardinality({ c \in cells : P(m[c]) })
        isHigh(x) == x > 70
        isMedium(x) == x > 40 /\ x <= 70
        isLow(x) == x <= 40
    IN [high |-> Q(count(isHigh) * 100, total),
        medium |-> Q(count(isMedium) * 100, total),
        low |-> Q(count(isLow) * 100, total)]

tech_keywords == <<"programming", "software", "development", "technical", "coding", "system">>
management_keywords == <<"manage", "lead", "project", "team", "coordinate">>
communication_keywords == <<"communication", "presentation", "writing", "collaboration">>

\* _identify_conceptual_gaps
_identify_conceptual_gaps(missing_concepts) ==
    LET missing_text == lower(Join(" ", missing_concepts))
        any(keywords) == \E k \in SeqToSet(keywords) : Contains(k, missing_text)
    IN (IF any(tech_keywords)
        THEN <<"Technical skills and programming experience">> ELSE <<>>)
       \o (IF any(management_keywords)
           THEN <<"Leadership and project management experience">> ELSE <<>>)
       \o (IF any(communication_keywords)
           THEN <<"Communication and collaboration skills">> ELSE <<>>)

\* similarity_matrix[0, i] in the place of the maximum of the column.
ColumnMax_first_row(m, nr, i) == m[<<1, i>>]

\* np.max(similarity_matrix[:, i])
ColumnMax(m, nr, i) == CHOOSE v \in { m[<<r, i>>] : r \in 1..nr } :
                          \A r \in 1..nr : m[<<r, i>>] <= v

\* np.argmax(similarity_matrix[:, i]): the first row holding the maximum.
ColumnArgmax(m, nr, i) ==
    CHOOSE r \in 1..nr :
        /\ m[<<r, i>>] = ColumnMax(m, nr, i)
        /\ \A q \in 1..(r - 1) : m[<<q, i>>] < ColumnMax(m, nr, i)

RECURSIVE Filter(_, _)
Filter(P(_), q) ==
    IF q = <<>> THEN <<>>
    ELSE (IF P(Head(q)) THEN <<Head(q)>> ELSE <<>>) \o Filter(P, Tail(q))

RECURSIVE JobSentences(_)
JobSentences(matches) ==
    IF matches = <<>> THEN <<>>
    ELSE <<Head(matches).job_sentence>> \o JobSentences(Tail(matches))

\* q[:n]
Take(q, n) == SubSeq(q, 1, Min(n, Len(q)))

\* The same with a match threshold that includes 0.3.
SemanticFromMatrix_inclusive(resume_sentences, job_sentences, overall, m) ==
    LET nr == Len(resume_sentences)
        best_matches ==
            [i \in 1..Len(job_sentences) |->
                [job_sentence |-> job_sentences[i],
                 resume_sentence |-> resume_sentences[ColumnArgmax(m, nr, i)],
                 similarity |-> ColumnMax(m, nr, i)]]
        isMatch(match) == match.similarity >= 30
        isMissing(match) == match.similarity < 20
        isStrong(match) == match.similarity > 50
        semantic_matches == Filter(isMatch, best_matches)
        missing_concepts == JobSentences(Filter(isMissing, best_matches))
    IN [overall_semantic_similarity |-> Q(overall, 1),
        semantic_matches |-> semantic_matches,
        missing_concepts |-> Take(missing_concepts, 10),
        strong_matches |-> Filter(isStrong, semantic_matches),
        similarity_distribution |-> _analyze_similarity_distribution(m),
        conceptual_gaps |-> _identify_conceptual_gaps(missing_concepts)]

\* The same without the cut of missing_concepts to ten entries.
SemanticFromMatrix_uncapped(resume_sentences, job_sentences, overall, m) ==
    LET nr == Len(resume_sentences)
        best_matches ==
            [i \in 1..Len(job_sentences) |->
                [job_sentence |-> job_sentences[i],
                 resume_sentence |-> resume_sentences[ColumnArgmax(m, nr, i)],
                 similarity |-> ColumnMax(m, nr, i)]]
        isMatch(match) == match.similarity > 30
        isMissing(match) == match.similarity < 20
        isStrong(match) == match.similarity > 50
        semantic_matches == Filter(isMatch, best_matches)
        missing_concepts == JobSentences(Filter(isMissing, best_matches))
    IN [overall_semantic_similarity |-> Q(overall, 1),
        semantic_matches |-> semantic_matches,
        missing_concepts |-> missing_concepts,
        strong_matches |-> Filter(isStrong, semantic_matches),
        similarity_distribution |-> _analyze_similarity_distribution(m),
        conceptual_gaps |-> _identify_conceptual_gaps(missing_concepts)]

\* The part of calculate_semantic_similarity after fit_transform returned:
\* overall is cosine(enhanced resume, enhanced job) and m the similarity
\* matrix of the resume segments against the job segments.
SemanticFromMatrix(resume_sentences, job_sentences, overall, m) ==
    LET nr == Len(resume_sentences)
        best_matches ==
            [i \in 1..Len(job_sentences) |->
                [job_sentence |-> job_sentences[i],
                 resume_sentence |-> resume_sentences[ColumnArgmax(m, nr, i)],
                 similarity |-> ColumnMax(m, nr, i)]]
        isMatch(match) == match.similarity > 30
        isMissing(match) == match.similarity < 20
        isStrong(match) == match.similarity > 50
        semantic_matches == Filter(isMatch, best_matches)
        missing_concepts == JobSentences(Filter(isMissing, best_matches))
    IN [overall_semantic_similarity |-> Q(overall, 1),
        semantic_matches |-> semantic_matches,
        missing_concepts |-> Take(missing_concepts, 10),
        strong_matches |-> Filter(isStrong, semantic_matches),
        similarity_distribution |-> _analyze_similarity_distribution(m),
        conceptual_gaps |-> _identify_conceptual_gaps(missing_concepts)]

\* calculate_semantic_similarity from the segments of the two texts, without
\* its try / except: what is raised inside leaves the function.
SemanticFromSegments_uncaught(resume_sentences, job_sentences, fallback, vec) ==
    IF resume_sentences.raised \/ job_sentences.raised
    THEN Raised
    ELSE IF resume_sentences.value = <<>> \/ job_sentences.value = <<>>
    THEN fallback
    ELSE IF vec.raised
    THEN Raised
    ELSE SemanticFromMatrix(resume_sentences.value, job_sentences.value,
                            vec.overall, vec.matrix)

\* The body of calculate_semantic_similarity: resume_sentences and
\* job_sentences are what extract_sentences_and_phrases gave (or its
\* raising), fallback is _fallback_similarity_analysis for the two texts.
\* Whatever is raised inside the try is caught and answered by the fallback.
SemanticFromSegments(resume_sentences, job_sentences, fallback, vec) ==
    IF resume_sentences.raised \/ job_sentences.raised
    THEN fallback
    ELSE IF resume_sentences.value = <<>> \/ job_sentences.value = <<>>
    THEN fallback
    ELSE IF vec.raised
    THEN fallback
    ELSE SemanticFromMatrix(resume_sentences.value, job_sentences.value,
                            vec.overall, vec.matrix)

\* calculate_semantic_similarity.  style is the style the pipeline answers
\* in; vec is what self.vectorizer.fit_transform and cosine_similarity give
\* for the texts of this call: [raised, overall, matrix].
calculate_semantic_similarity(has_nlp, resume_text, job_description_text, style, vec) ==
    SemanticFromSegments(SegmentsOf(has_nlp, resume_text, style),
                         SegmentsOf(has_nlp, job_description_text, style),
                         _fallback_similarity_analysis(resume_text, job_description_text),
                         vec)

\* calculate_enhanced_match_score with a bonus of 2 for every strong match,
\* however many.
calculate_enhanced_match_score_uncapped_bonus(keyword_score, semantic_analysis) ==
    LET semantic_score == semantic_analysis.overall_semantic_similarity
        weighted == Q(6 * keyword_score.n * semantic_score.d
                        + 4 * semantic_score.n * keyword_score.d,
                      10 * keyword_score.d * semantic_score.d)
        strong == Len(semantic_analysis.strong_matches)
        bonus == strong * 2
        enhanced_score == IF strong > 0
                          THEN QMin(QAdd(weighted, Q(bonus, 1)), Q(100, 1))
                          ELSE weighted
    IN [enhanced_overall_score |-> Round1(enhanced_score),
        keyword_component |-> Round1(keyword_score),
        semantic_component |-> Round1(semantic_score),
        keyword_weight |-> 60,
        semantic_weight |-> 40,
        semantic_bonus |-> strong * 2]

\* calculate_enhanced_match_score without the min(..., 100) around the
\* score that got the bonus.
calculate_enhanced_match_score_unclamped(keyword_score, semantic_analysis) ==
    LET semantic_score == semantic_analysis.overall_semantic_similarity
        weighted == Q(6 * keyword_score.n * semantic_score.d
                        + 4 * semantic_score.n * keyword_score.d,
                      10 * keyword_score.d * semantic_score.d)
        strong == Len(semantic_analysis.strong_matches)
        bonus == Min(strong * 2, 10)
        enhanced_score == IF strong > 0
                          THEN QAdd(weighted, Q(bonus, 1))
                          ELSE weighted
    IN [enhanced_overall_score |-> Round1(enhanced_score),
        keyword_component |-> Round1(keyword_score),
        semantic_component |-> Round1(semantic_score),
        keyword_weight |-> 60,
        semantic_weight |-> 40,
        semantic_bonus |-> strong * 2]

\* calculate_enhanced_match_score: keyword_score is
\* keyword_analysis['overall_score'].
calculate_enhanced_match_score(keyword_score, semantic_analysis) ==
    LET semantic_score == semantic_analysis.overall_semantic_similarity
        weighted == Q(6 * keyword_score.n * semantic_score.d
                        + 4 * semantic_score.n * keyword_score.d,
                      10 * keyword_score.d * semantic_score.d)
        strong == Len(semantic_analysis.strong_matches)
        bonus == Min(strong * 2, 10)
        enhanced_score == IF strong > 0
                          THEN QMin(QAdd(weighted, Q(bonus, 1)), Q(100, 1))
                          ELSE weighted
    IN [enhanced_overall_score |-> Round1(enhanced_score),
        keyword_component |-> Round1(keyword_score),
        semantic_component |-> Round1(semantic_score),
        keyword_weight |-> 60,
        semantic_weight |-> 40,
        semantic_bonus |-> strong * 2]

(***************************************************************************)
(* Formatting                                                              *)
(***************************************************************************)

UpperChar(c) ==
    IF c \in CharsOf(LowerLetters)
    THEN CharAt(UpperLetters, CHOOSE i \in 1..Len(LowerLetters) : CharAt(LowerLetters, i) = c)
    ELSE c

RECURSIVE TitleFrom(_, _)
\* str.title(): a letter that follows a non-letter is upper-cased, every
\* other letter lower-cased.
TitleFrom(s, afterLetter) ==
    IF s = "" THEN ""
    ELSE LET c == CharAt(s, 1)
         IN (IF afterLetter THEN LowerChar(c) ELSE UpperChar(c))
            \o TitleFrom(Tail(s), IsLetter(c))

title(s) == TitleFrom(s, FALSE)

RECURSIVE IntStr(_)
\* str(n) for n >= 0
IntStr(n) == IF n < 10 THEN CharAt(Digits, n + 1)
             ELSE IntStr(n \div 10) \o CharAt(Digits, (n % 10) + 1)

\* f"{x:.1f}" for a value held in tenths.
Fmt1(tenths) == IntStr(tenths \div 10) \o "." \o IntStr(tenths % 10)

(***************************************************************************)
(* ResumeJobMatcher: scoring and suggestions                               *)
(***************************************************************************)

\* Whether a value is an exception on its way out.
IsRaised(v) == "raised" \in DOMAIN v /\ v.raised

\* The keyword score with a job description without keywords counted as
\* matched in full.
KeywordScore_vacuous(all_matches, total_job_keywords) ==
    IF total_job_keywords = 0 THEN Q(100, 1)
    ELSE Q(Cardinality(all_matches) * 100, total_job_keywords)

\* The keyword score of calculate_match_score, before rounding.
KeywordScore(all_matches, total_job_keywords) ==
    IF total_job_keywords = 0 THEN Q(0, 1)
    ELSE Q(Cardinality(all_matches) * 100, total_job_keywords)

\* The set difference with its operands exchanged.
MissingKeywords_swapped(job_set, resume_set) == resume_set \ job_set

\* job_keywords[X] - resume_keywords[X]
MissingKeywords(job_set, resume_set) == job_set \ resume_set

\* The body of calculate_match_score after its calls of
\* extract_skills_and_keywords and calculate_semantic_similarity returned.
\* Scores that the code rounds are in tenths.
MatchResultFrom(resume_keywords, job_keywords, semantic_analysis) ==
    LET technical_matches == resume_keywords.technical \cap job_keywords.technical
        soft_skill_matches == resume_keywords.soft_skills \cap job_keywords.soft_skills
        general_matches == resume_keywords.general \cap job_keywords.general
        all_job_keywords == job_keywords.all
        all_resume_keywords == resume_keywords.all
        all_matches == all_resume_keywords \cap all_job_keywords
        total_job_keywords == Cardinality(all_job_keywords)
        keyword_score == KeywordScore(all_matches, total_job_keywords)
        tech_score == Q(Cardinality(technical_matches) * 100,
                        Max(Cardinality(job_keywords.technical), 1))
        soft_score == Q(Cardinality(soft_skill_matches) * 100,
                        Max(Cardinality(job_keywords.soft_skills), 1))
        enhanced_scores == calculate_enhanced_match_score(keyword_score, semantic_analysis)
        missing_technical ==
            MissingKeywords(job_keywords.technical, resume_keywords.technical)
        missing_soft_skills ==
            MissingKeywords(job_keywords.soft_skills, resume_keywords.soft_skills)
        missing_general ==
            MissingKeywords(job_keywords.general, resume_keywords.general)
    IN [raised |-> FALSE,
        overall_score |-> enhanced_scores.enhanced_overall_score,
        keyword_score |-> Round1(keyword_score),
        semantic_score |-> Round1(semantic_analysis.overall_semantic_similarity),
        technical_score |-> Round1(tech_score),
        soft_skills_score |-> Round1(soft_score),
        matches |-> [technical |-> technical_matches,
                     soft_skills |-> soft_skill_matches,
                     general |-> general_matches,
                     all |-> all_matches],
        missing |-> [technical |-> missing_technical,
                     soft_skills |-> missing_soft_skills,
                     general |-> missing_general],
        total_job_keywords |-> total_job_keywords,
        total_matches |-> Cardinality(all_matches),
        semantic_analysis |-> semantic_analysis,
        enhanced_scoring |-> enhanced_scores,
        keywords_found |-> [resume |-> resume_keywords, job |-> job_keywords]]

\* A calculate_match_score that goes on with no keywords for a text whose
\* extraction raised.
ReturnOrRaise_partial(resume_keywords, job_keywords, semantic_analysis) ==
    MatchResultFrom(IF resume_keywords.raised THEN Categorize({}) ELSE resume_keywords,
                    IF job_keywords.raised THEN Categorize({}) ELSE job_keywords,
                    semantic_analysis)

\* What leaves calculate_match_score: nothing it calls is inside a try, so
\* what a call raised leaves it too.
ReturnOrRaise(resume_keywords, job_keywords, semantic_analysis) ==
    IF resume_keywords.raised \/ job_keywords.raised THEN Raised
    ELSE IF IsRaised(semantic_analysis) THEN Raised
    ELSE MatchResultFrom(resume_keywords, job_keywords, semantic_analysis)

\* calculate_match_score.  matcher is the engine ([nlp, semantic_nlp]: which
\* of the two pipelines loaded); env is what the libraries answer during
\* this call: [style, vec].
calculate_match_score(matcher, resume_text, job_description_text, env) ==
    ReturnOrRaise(KeywordsOf(matcher.nlp, resume_text, env.style),
                  KeywordsOf(matcher.nlp, job_description_text, env.style),
                  calculate_semantic_similarity(matcher.semantic_nlp, resume_text,
                                                job_description_text, env.style, env.vec))

Suggestion(type, text) == [type |-> type, text |-> text]

RECURSIVE ConceptSuggestions(_)
\* The loop over top_missing in generate_semantic_suggestions; concept[:100]
\* is the whole concept for the texts of the model, all shorter than 100.
ConceptSuggestions(concepts) ==
    IF concepts = <<>> THEN <<>>
    ELSE (IF Len(Head(concepts)) > 20
          THEN <<Suggestion("semantic",
                    "**Missing Concept**: Consider adding experience or examples related to: '"
                    \o Take(Head(concepts), 100) \o "...'")>>
          ELSE <<>>)
         \o ConceptSuggestions(Tail(concepts))

RECURSIVE GapSuggestions(_)
GapSuggestions(gaps) ==
    IF gaps = <<>> THEN <<>>
    ELSE <<Suggestion("conceptual",
              "**Conceptual Gap**: Strengthen your resume by highlighting experience in "
              \o lower(Head(gaps)))>>
         \o GapSuggestions(Tail(gaps))

\* generate_semantic_suggestions: keyword_score is
\* keyword_analysis['overall_score'], in tenths.
generate_semantic_suggestions(semantic_analysis, keyword_score) ==
    LET semantic_score == semantic_analysis.overall_semantic_similarity
        atLeast(x) == QLeq(Q(x, 1), semantic_score)
        assessment ==
            IF atLeast(70) /\ keyword_score >= 700
            THEN Suggestion("success", "Excellent alignment! Your resume demonstrates both keyword relevance and conceptual understanding of the role requirements.")
            ELSE IF atLeast(60)
            THEN Suggestion("improvement", "Your resume shows good conceptual alignment with the role. Focus on incorporating more specific keywords to improve visibility in applicant tracking systems.")
            ELSE IF keyword_score >= 600
            THEN Suggestion("improvement", "Good keyword coverage! Consider adding more detailed descriptions that demonstrate deeper understanding of the concepts behind these keywords.")
            ELSE Suggestion("focus", "Significant improvements needed. Your resume needs both better keyword alignment and stronger demonstration of relevant concepts and experience.")
        all == <<assessment>>
               \o ConceptSuggestions(Take(semantic_analysis.missing_concepts, 3))
               \o GapSuggestions(Take(semantic_analysis.conceptual_gaps, 2))
               \o (IF semantic_analysis.strong_matches # <<>>
                   THEN <<Suggestion("strength",
                             "Great! You have " \o IntStr(Len(semantic_analysis.strong_matches))
                             \o " strong conceptual matches. Make sure these experiences are prominently featured in your resume.")>>
                   ELSE <<>>)
    IN Take(all, 6)

\* skill_suggestions of _generate_technical_suggestions
TechnicalTip(skill) ==
    CASE skill = "python" -> "Add Python to your Skills section or mention Python projects in your Experience section (e.g., 'Developed automated scripts using Python')"
      [] skill = "java" -> "Include Java in your technical skills or describe Java-based projects in your Experience section"
      [] skill = "javascript" -> "Highlight JavaScript experience in your Skills section or mention web development projects using JavaScript"
      [] skill = "react" -> "Add React to your frontend skills or describe React applications you've built"
      [] skill = "sql" -> "Include SQL in your technical skills or mention database work in your Experience section (e.g., 'Queried databases using SQL')"
      [] skill = "aws" -> "Add AWS to your cloud skills or mention cloud infrastructure work in your Experience section"
      [] skill = "docker" -> "Include Docker in your DevOps skills or describe containerization experience"
      [] skill = "git" -> "Add Git to your version control skills or mention collaborative development experience"
      [] skill = "machine learning" -> "Include Machine Learning in your Skills section or describe ML projects in your Experience section"
      [] skill = "project management" -> "Highlight project management experience in your Experience section or add PM tools to your Skills section"
      [] OTHER -> "Consider adding this skill to your Skills section or describing related experience in your work history"

\* soft_skill_suggestions of _generate_soft_skill_suggestions
SoftSkillTip(skill) ==
    CASE skill = "leadership" -> "Demonstrate leadership by describing times you led teams, mentored colleagues, or took initiative on projects"
      [] skill = "communication" -> "Highlight communication skills by mentioning presentations, client interactions, or cross-team collaboration"
      [] skill = "teamwork" -> "Showcase teamwork through examples of collaborative projects or cross-functional work"
      [] skill = "problem solving" -> "Illustrate problem-solving abilities by describing challenges you've overcome or innovative solutions you've implemented"
      [] skill = "management" -> "Show management experience through examples of supervising others, managing projects, or overseeing processes"
      [] skill = "analytical" -> "Demonstrate analytical skills by mentioning data analysis, research projects, or systematic problem-solving approaches"
      [] OTHER -> "Consider adding examples that demonstrate this skill in your Experience or Summary section"

RECURSIVE SkillSuggestions(_, _, _)
SkillSuggestions(type, Tip(_), skills) ==
    IF skills = <<>> THEN <<>>
    ELSE <<Suggestion(type, "**" \o title(Head(skills)) \o "**: " \o Tip(lower(Head(skills))))>>
         \o SkillSuggestions(type, Tip, Tail(skills))

\* _generate_technical_suggestions: listed is list(missing_technical), the
\* set in the order the interpreter iterates it.
_generate_technical_suggestions(listed) ==
    SkillSuggestions("technical", TechnicalTip, Take(listed, 5))

\* _generate_soft_skill_suggestions: listed is list(missing_soft_skills).
_generate_soft_skill_suggestions(listed) ==
    SkillSuggestions("soft_skill", SoftSkillTip, Take(listed, 3))

\* A headline chosen by the keyword score.
Headline_by_keyword(scores) ==
    IF scores.keyword >= 700
    THEN Suggestion("success", "Excellent keyword alignment! Consider adding more detailed descriptions to demonstrate deeper understanding of the concepts.")
    ELSE IF scores.keyword >= 400
    THEN Suggestion("improvement",
             "Good foundation with " \o Fmt1(scores.keyword) \o "% keyword match and "
             \o Fmt1(scores.semantic)
             \o "% conceptual alignment. Targeted improvements can significantly boost your score.")
    ELSE Suggestion("focus", "Significant opportunity for improvement in both keyword relevance and conceptual alignment with the job requirements.")

\* Stage 1 of generate_suggestions: the headline.
Headline(scores) ==
    IF scores.overall >= 700
    THEN IF scores.semantic >= 600
         THEN Suggestion("success", "Outstanding! Your resume demonstrates both strong keyword alignment and conceptual understanding of the role requirements.")
         ELSE Suggestion("success", "Excellent keyword alignment! Consider adding more detailed descriptions to demonstrate deeper understanding of the concepts.")
    ELSE IF scores.overall >= 400
    THEN Suggestion("improvement",
             "Good foundation with " \o Fmt1(scores.keyword) \o "% keyword match and "
             \o Fmt1(scores.semantic)
             \o "% conceptual alignment. Targeted improvements can significantly boost your score.")
    ELSE Suggestion("focus", "Significant opportunity for improvement in both keyword relevance and conceptual alignment with the job requirements.")

\* The strategic advice with the two texts exchanged.
Strategy_exchanged(scores) ==
    IF scores.keyword > scores.semantic + 200
    THEN <<Suggestion("strategy", "Good conceptual alignment! Incorporate more specific keywords and terminology from the job description to improve ATS compatibility.")>>
    ELSE IF scores.semantic > scores.keyword + 200
    THEN <<Suggestion("strategy", "Strong keyword coverage! Focus on providing more detailed examples and context to demonstrate deeper understanding of these skills.")>>
    ELSE <<>>

\* Stage 5 of generate_suggestions: the strategic advice.
Strategy(scores) ==
    IF scores.keyword > scores.semantic + 200
    THEN <<Suggestion("strategy", "Strong keyword coverage! Focus on providing more detailed examples and context to demonstrate deeper understanding of these skills.")>>
    ELSE IF scores.semantic > scores.keyword + 200
    THEN <<Suggestion("strategy", "Good conceptual alignment! Incorporate more specific keywords and terminology from the job description to improve ATS compatibility.")>>
    ELSE <<>>

ScoresOf(analysis_result) ==
    [overall |-> analysis_result.overall_score,
     keyword |-> analysis_result.keyword_score,
     semantic |-> analysis_result.semantic_score,
     technical |-> analysis_result.technical_score,
     soft_skills |-> analysis_result.soft_skills_score]

\* What each stage of generate_suggestions appends, in the order of the
\* stages.  order gives list(missing['technical']) and
\* list(missing['soft_skills']).
StageOutputs(analysis_result, order) ==
    LET missing == analysis_result.missing
        scores == ScoresOf(analysis_result)
    IN << <<Headline(scores)>>,
          Take(generate_semantic_suggestions(analysis_result.semantic_analysis,
                                             scores.keyword), 3),
          IF missing.technical # {} /\ scores.technical < 800
          THEN Take(_generate_technical_suggestions(order.technical), 2) ELSE <<>>,
          IF missing.soft_skills # {} /\ scores.soft_skills < 800
          THEN Take(_generate_soft_skill_suggestions(order.soft_skills), 2) ELSE <<>>,
          Strategy(scores) >>

\* The list the five stages built, one after the other.
Concat(out) == out[1] \o out[2] \o out[3] \o out[4] \o out[5]

\* generate_suggestions returning everything its stages appended.
generate_suggestions_uncapped(analysis_result, order) ==
    Concat(StageOutputs(analysis_result, order))

\* generate_suggestions
generate_suggestions(analysis_result, order) ==
    Take(Concat(StageOutputs(analysis_result, order)), 8)

(***************************************************************************)
(* The inputs and the library answers the model explores                   *)
(***************************************************************************)

\* The cosine similarities (in hundredths) the library answers with: one in
\* each band the code tells apart, and the threshold of a match.
SimGrid == {10, 30, 50, 60}

OverallGrid == {0, 25, 60, 100}

\* The similarity matrices for nr resume segments and nj job segments: all
\* cells alike, or the first job segment apart from the others.
Matrices(nr, nj) ==
    { [c \in (1..nr) \X (1..nj) |-> v] : v \in SimGrid }
    \cup { [c \in (1..nr) \X (1..nj) |-> IF c[2] = 1 THEN p[1] ELSE p[2]] :
             p \in {<<60, 10>>, <<10, 60>>} }

\* The answers of fit_transform and cosine_similarity for nr resume segments
\* and nj job segments: the call raising (fit_transform raises ValueError on
\* an empty vocabulary), or the similarity of the two enhanced texts and the
\* matrix of the segments.
VecAnswers(nr, nj) ==
    {[raised |-> TRUE]}
    \cup { [raised |-> FALSE, overall |-> o, matrix |-> m] :
             o \in OverallGrid, m \in Matrices(nr, nj) }

\* The orders in which the interpreter can iterate a set.
RECURSIVE Orders(_)
Orders(S) ==
    IF S = {} THEN {<<>>}
    ELSE UNION { { <<x>> \o rest : rest \in Orders(S \ {x}) } : x \in S }

(***************************************************************************)
(* State                                                                   *)
(***************************************************************************)

VARIABLES
    matcher,            \* the engine: [nlp, semantic_nlp], which pipelines loaded
    pipeline,           \* the style the installed pipeline answers in
    vectorizer,         \* self.vectorizer: the texts it was last fitted on
    pc,                 \* where the client of the engine is
    resume_text,        \* the resume text of the call
    job_text,           \* the job description text of the call
    vec,                \* the vectorizer's answer during the call
    analysis_result,    \* what calculate_match_score returned, or NoResult
    set_order,          \* list(missing[X]) for the sets of analysis_result
    suggestions,        \* what generate_suggestions returned
    semantic_analysis,  \* what a direct calculate_semantic_similarity returned
    fused,              \* a direct calculate_enhanced_match_score call and its value
    segments,           \* the segments of the two texts of a semantic analysis
    library,            \* what the vectorizer has answered so far, by fit and texts
    history,            \* the calls made on the engine, oldest first
    sessions,           \* the concurrent calls on the engine, by session
    widgets,            \* the inputs of the page
    page,               \* what the last run of the page displayed
    loads               \* how often the engine and the pipeline were loaded

engineVars == <<matcher, pipeline, vectorizer>>

callVars == <<pc, resume_text, job_text, vec, analysis_result, set_order,
              suggestions, semantic_analysis>>

fuseVars == <<fused, segments>>

seqVars == <<library, history>>

concVars == <<sessions>>

appVars == <<widgets, page, loads>>

vars == <<engineVars, callVars, fuseVars, seqVars, concVars, appVars>>

NoResult == [raised |-> FALSE, none |-> TRUE]

HasResult(r) == ~r.raised /\ "overall_score" \in DOMAIN r

NoVec == [raised |-> FALSE, unused |-> TRUE]

NoOrder == [technical |-> <<>>, soft_skills |-> <<>>]

Unfitted == [fitted |-> FALSE]

\* The vectorizer fitted on the texts of a call.
FittedOn(r, j) == [fitted |-> TRUE, resume |-> r, job |-> j]

\* A vectorizer that is fitted once and keeps that fit.
fit_once(vz, r, j) == IF vz.fitted THEN vz ELSE FittedOn(r, j)

\* The fit of self.vectorizer.fit_transform(all_texts): whatever vz was
\* fitted on before, it is now fitted on the texts of this call.
fit(vz, r, j) == FittedOn(r, j)

\* ResumeJobMatcher.__init__ and SemanticResumeAnalyzer.__init__: each loads
\* the pipeline; installed is whether en_core_web_sm is installed.
NewMatcher(installed) == [nlp |-> installed, semantic_nlp |-> installed]

\* Whether m is an engine (and not the page's empty cache or a cached None).
IsEngine(m) == "nlp" \in DOMAIN m

\* The number of segments extract_sentences_and_phrases gives.
NumSegments(has_nlp, text, style) ==
    LET segs == SegmentsOf(has_nlp, text, style)
    IN IF segs.raised THEN 0 ELSE Len(segs.value)

\* Whether calculate_semantic_similarity(r, j) gets as far as fit_transform.
Vectorizes(r, j) ==
    /\ NumSegments(matcher.semantic_nlp, r, pipeline) > 0
    /\ NumSegments(matcher.semantic_nlp, j, pipeline) > 0

\* What the vectorizer can answer for the texts of a call.
AnswersFor(r, j) ==
    IF Vectorizes(r, j)
    THEN VecAnswers(NumSegments(matcher.semantic_nlp, r, pipeline),
                    NumSegments(matcher.semantic_nlp, j, pipeline))
    ELSE {NoVec}

\* The engine right after construction.
EngineInit ==
    /\ pipeline \in ParseStyles \cup {"absent"}
    /\ matcher = NewMatcher(pipeline # "absent")
    /\ vectorizer = Unfitted

CallInit ==
    /\ pc = "idle"
    /\ resume_text = ""
    /\ job_text = ""
    /\ vec = NoVec
    /\ analysis_result = NoResult
    /\ set_order = NoOrder
    /\ suggestions = <<>>
    /\ semantic_analysis = NoResult

Sessions == {1, 2}

NoCall == [pc |-> "idle"]

NoFused == [called |-> FALSE]

NoSegments == [called |-> FALSE]

\* The page before its first run, and the radio buttons and inputs as a
\* new session finds them.
NoPage == [shown |-> <<>>, invoked |-> FALSE]

\* What st.cache_resource holds for load_nlp_matcher before its first call.
NotConstructed == [constructed |-> FALSE]

None == [none |-> TRUE]

DefaultWidgets ==
    [resume_input_method |-> "Upload File", resume_file |-> None, resume_paste |-> "",
     job_input_method |-> "Upload File", job_file |-> None, job_paste |-> "",
     analyze_button |-> FALSE]

NoLoads == [full_features |-> TRUE, engine |-> 0, pipeline |-> 0, warnings |-> 0]

\* The variables a specification does not use stay as they are here.
FuseIdle == fused = NoFused /\ segments = NoSegments

SeqIdle == library = <<>> /\ history = <<>>

ConcIdle == sessions = [s \in Sessions |-> NoCall]

AppIdle == widgets = DefaultWidgets /\ page = NoPage /\ loads = NoLoads

Init == EngineInit /\ CallInit /\ FuseIdle /\ SeqIdle /\ ConcIdle /\ AppIdle

\* fit_transform on self.vectorizer: it stays fitted on the texts of the
\* call unless the call raised.
Refit(r, j, v) == IF v = NoVec \/ v.raised THEN vectorizer ELSE fit(vectorizer, r, j)

\* A client calls calculate_match_score(r, j).
CallMatchScore(r, j) ==
    /\ pc = "idle"
    /\ \E v \in AnswersFor(r, j) :
       \E result \in {calculate_match_score(matcher, r, j, [style |-> pipeline, vec |-> v])} :
          /\ resume_text' = r
          /\ job_text' = j
          /\ analysis_result' = result
          /\ IF result.raised
             THEN /\ pc' = "failed"
                  /\ vec' = NoVec
                  /\ set_order' = NoOrder
                  /\ UNCHANGED vectorizer
             ELSE /\ pc' = "scored"
                  /\ vec' = v
                  /\ vectorizer' = Refit(r, j, v)
                  /\ set_order' \in [technical : Orders(result.missing.technical),
                                     soft_skills : Orders(result.missing.soft_skills)]
    /\ UNCHANGED <<matcher, pipeline, suggestions, semantic_analysis>>
    /\ UNCHANGED <<fuseVars, seqVars, concVars, appVars>>

\* A generate_suggestions call for which the interpreter iterates the sets
\* of the result in an order of its own.
CallSuggestions_reordering ==
    /\ pc \in {"scored", "suggested"}
    /\ \E order \in [technical : Orders(analysis_result.missing.technical),
                     soft_skills : Orders(analysis_result.missing.soft_skills)] :
          /\ suggestions' = generate_suggestions(analysis_result, order)
          /\ set_order' = order
    /\ pc' = IF pc = "scored" THEN "suggested" ELSE "resuggested"
    /\ UNCHANGED <<engineVars, resume_text, job_text, vec, analysis_result,
                   semantic_analysis>>
    /\ UNCHANGED <<fuseVars, seqVars, concVars, appVars>>

\* A generate_suggestions call that takes the skills it lists out of the
\* sets of the result.
CallSuggestions_consuming ==
    /\ pc \in {"scored", "suggested"}
    /\ suggestions' = generate_suggestions(analysis_result, set_order)
    /\ analysis_result' = [analysis_result EXCEPT !.missing.technical = {},
                                                  !.missing.soft_skills = {}]
    /\ pc' = IF pc = "scored" THEN "suggested" ELSE "resuggested"
    /\ UNCHANGED <<engineVars, resume_text, job_text, vec, set_order, semantic_analysis>>
    /\ UNCHANGED <<fuseVars, seqVars, concVars, appVars>>

\* The client calls generate_suggestions on the result it holds, a first
\* time and then once more on the same result.  The function reads the
\* result and builds a new list; list(set) on a set that was not changed
\* gives the order it gave before.
CallSuggestions ==
    /\ pc \in {"scored", "suggested"}
    /\ suggestions' = generate_suggestions(analysis_result, set_order)
    /\ pc' = IF pc = "scored" THEN "suggested" ELSE "resuggested"
    /\ UNCHANGED <<engineVars, resume_text, job_text, vec, analysis_result, set_order,
                   semantic_analysis>>
    /\ UNCHANGED <<fuseVars, seqVars, concVars, appVars>>

\* A client calls semantic_analyzer.calculate_semantic_similarity(r, j).
CallSemantic(r, j) ==
    /\ pc = "idle"
    /\ \E v \in AnswersFor(r, j) :
          /\ semantic_analysis' =
                 calculate_semantic_similarity(matcher.semantic_nlp, r, j, pipeline, v)
          /\ vec' = v
          /\ vectorizer' = Refit(r, j, v)
    /\ resume_text' = r
    /\ job_text' = j
    /\ pc' = "analyzed"
    /\ UNCHANGED <<matcher, pipeline, analysis_result, set_order, suggestions>>
    /\ UNCHANGED <<fuseVars, seqVars, concVars, appVars>>

Next ==
    \/ \E r \in TextPool, j \in TextPool : CallMatchScore(r, j)
    \/ CallSuggestions
    \/ \E r \in TextPool, j \in TextPool : CallSemantic(r, j)

Spec == Init /\ [][Next]_vars

(***************************************************************************)
(* calculate_enhanced_match_score called on its own (FuseSpec)             *)
(***************************************************************************)

\* The most strong matches a semantic analysis of the model holds.
MaxStrong == 7

\* Keyword scores: m matched of t job keywords, and the 80 of the example.
KeywordScores ==
    { Q(100 * p[1], p[2]) : p \in { q \in (0..3) \X (1..3) : q[1] <= q[2] } }
    \cup {Q(80, 1)}

\* Semantic scores: cosine similarities in hundredths and word-overlap
\* ratios.
SemanticScores == { Q(x, 1) : x \in {0, 25, 50, 87, 100} } \cup {Q(100, 3), Q(200, 3)}

\* A semantic analysis with the given similarity and n strong matches.
AnalysisWith(s, n) ==
    [overall_semantic_similarity |-> s,
     strong_matches |->
         [i \in 1..n |-> [job_sentence |-> "job", resume_sentence |-> "resume",
                          similarity |-> 60]]]

\* A client calls calculate_enhanced_match_score.
CallEnhanced(k, s, n) ==
    /\ ~fused.called
    /\ fused' = [called |-> TRUE, keyword_score |-> k, semantic_score |-> s, strong |-> n,
                 value |-> calculate_enhanced_match_score(k, AnalysisWith(s, n))]
    /\ UNCHANGED <<engineVars, callVars, segments, seqVars, concVars, appVars>>

FuseNext ==
    \E k \in KeywordScores, s \in SemanticScores, n \in 0..MaxStrong :
        CallEnhanced(k, s, n)

FuseSpec == Init /\ [][FuseNext]_vars

(***************************************************************************)
(* The semantic analysis from its segments on (SegSpec)                    *)
(*                                                                         *)
(* calculate_semantic_similarity after extract_sentences_and_phrases gave  *)
(* the segments of the two texts: the segments are drawn from fixed        *)
(* phrases and the similarity matrix from the values on both sides of      *)
(* every threshold of the code.                                            *)
(***************************************************************************)

\* A text has at most this many segments.
MaxSegments == 12

ResumePhrases == <<"Led a team of engineers", "Wrote software in Python">>

JobPhrases ==
    <<"Lead the platform team", "Write Python services", "Manage cloud budgets",
      "Present results clearly", "Design data pipelines", "Review code daily",
      "Coordinate releases", "Mentor junior staff", "Automate deployments",
      "Monitor production", "Document decisions", "Plan software releases",
      "Support customers">>

\* The numbers of job segments explored: few, and enough to pass the cap
\* of ten missing concepts.
JobCounts == {0, 1, 2, 3, MaxSegments - 1, MaxSegments}

\* Cosine similarities, in hundredths, at and next to the thresholds 0.2,
\* 0.3, 0.4, 0.5 and 0.7.
ThresholdGrid == {0, 19, 20, 30, 31, 40, 50, 51, 70, 71}

\* The similarity matrices for nr resume segments and nj job segments: to
\* the first resume segment the first k job segments have similarity a and
\* the others b, or a and b alternate; to a second resume segment the
\* first job segment has similarity q and the others none.
SegmentMatrices(nr, nj) ==
    { [c \in (1..nr) \X (1..nj) |->
          IF c[1] > 1 THEN (IF c[2] = 1 THEN q ELSE 0)
          ELSE IF c[2] <= k THEN p[1] ELSE p[2]] :
        k \in 0..Min(nj, 3), p \in ThresholdGrid \X ThresholdGrid, q \in {0, 71} }
    \cup { [c \in (1..nr) \X (1..nj) |->
               IF c[1] > 1 THEN (IF c[2] = 1 THEN q ELSE 0)
               ELSE IF c[2] % 2 = 1 THEN p[1] ELSE p[2]] :
             p \in ThresholdGrid \X ThresholdGrid, q \in {0, 71} }

\* What fit_transform and cosine_similarity answer for the segments.
SegmentAnswers(nr, nj) ==
    {[raised |-> TRUE]}
    \cup { [raised |-> FALSE, overall |-> 50, matrix |-> m] : m \in SegmentMatrices(nr, nj) }

\* calculate_semantic_similarity from line 65 on, for resume segments rs
\* and job segments js of texts that are the segments joined.
CallFromSegments(rs, js, v) ==
    /\ ~segments.called
    /\ segments' = [called |-> TRUE, resume |-> rs, job |-> js]
    /\ vec' = v
    /\ semantic_analysis' =
           SemanticFromSegments([raised |-> FALSE, value |-> rs],
                                [raised |-> FALSE, value |-> js],
                                _fallback_similarity_analysis(Join(" ", rs), Join(" ", js)),
                                v)
    /\ UNCHANGED <<engineVars, pc, resume_text, job_text, analysis_result, set_order,
                   suggestions, fused, seqVars, concVars, appVars>>

SegNext ==
    \E nr \in 0..Len(ResumePhrases), nj \in JobCounts :
        \E v \in SegmentAnswers(nr, nj) :
            CallFromSegments(Take(ResumePhrases, nr), Take(JobPhrases, nj), v)

SegSpec == Init /\ [][SegNext]_vars

(***************************************************************************)
(* calculate_match_score from the keywords of the two texts on (BandSpec)  *)
(*                                                                         *)
(* The score bands of the two assessments meet in values that take a job   *)
(* description of some hundred keywords and a cosine similarity finer      *)
(* than a hundredth.  Here the keywords of the two texts and the answers   *)
(* of the vectorizer are drawn directly: a job description of n keywords   *)
(* of which the resume has the first m, and a vectorized semantic          *)
(* analysis of a given similarity and number of strong matches.            *)
(***************************************************************************)

\* The most keywords a job description has.
MaxKeywords == 397

\* The i-th keyword of the job description.
KeywordNo(i) == "unit " \o IntStr(i)

\* extract_keywords_* giving the first n of these keywords.
FirstKeywords(n) == { KeywordNo(i) : i \in 1..n }

\* (matched, total): the keywords of the resume among those of the job
\* description, none, half, three in five or just less, and all.
KeywordCounts ==
    { <<m, n>> : m \in 0..MaxKeywords, n \in {1, 2, 5, MaxKeywords} } \cap
    UNION { { <<m, n>> : m \in {0, n \div 2, (3 * n - 1) \div 5, (3 * n) \div 5, n} } :
              n \in {1, 2, 5, MaxKeywords} }

\* cosine(enhanced resume, enhanced job), in ten-thousandths.
CosineGrid == {0, 2500, 5000, 5999, 6000, 7000, 10000}

\* The semantic analysis of a vectorized call: the two enhanced texts have
\* cosine similarity c / 10000, the first strong job segments have a
\* resume segment of similarity 0.6 and the others one of 0.4.
AnalysisAt(c, strong) ==
    LET segmentwise ==
            SemanticFromMatrix(Take(ResumePhrases, 1), Take(JobPhrases, MaxStrong), 0,
                               [cell \in {1} \X (1..MaxStrong) |->
                                   IF cell[2] <= strong THEN 60 ELSE 40])
    IN [overall_semantic_similarity |-> Q(c, 100),
        semantic_matches |-> segmentwise.semantic_matches,
        missing_concepts |-> segmentwise.missing_concepts,
        strong_matches |-> segmentwise.strong_matches,
        similarity_distribution |-> segmentwise.similarity_distribution,
        conceptual_gaps |-> segmentwise.conceptual_gaps]

\* calculate_match_score from line 141 on: extract_skills_and_keywords gave
\* resume_keywords and job_keywords, calculate_semantic_similarity gave
\* analysis.
CallFromKeywords(resume_keywords, job_keywords, analysis) ==
    /\ pc = "idle"
    /\ \E result \in {MatchResultFrom(resume_keywords, job_keywords, analysis)} :
          /\ analysis_result' = result
          /\ set_order' \in [technical : Orders(result.missing.technical),
                             soft_skills : Orders(result.missing.soft_skills)]
    /\ pc' = "scored"
    /\ UNCHANGED <<engineVars, resume_text, job_text, vec, suggestions, semantic_analysis>>
    /\ UNCHANGED <<fuseVars, seqVars, concVars, appVars>>

BandNext ==
    \/ \E count \in KeywordCounts :
          \E resume_keywords \in {Categorize(FirstKeywords(count[1]))},
             job_keywords \in {Categorize(FirstKeywords(count[2]))} :
             \E c \in CosineGrid, strong \in 0..MaxStrong :
                CallFromKeywords(resume_keywords, job_keywords, AnalysisAt(c, strong))
    \/ CallSuggestions

\* One engine, its pipeline loaded: the keywords are given, so the style the
\* pipeline answers in plays no part.
BandInit == Init /\ pipeline = "tokens"

BandSpec == BandInit /\ [][BandNext]_vars

(***************************************************************************)
(* Calls one after the other on one engine (SeqSpec)                       *)
(*                                                                         *)
(* The vectorizer is a function: what it answers depends on the texts it   *)
(* was fitted on and the texts it transforms, and on nothing else.         *)
(* library holds the answers given so far.  Each call is also made on an   *)
(* engine constructed for it alone.                                        *)
(***************************************************************************)

\* An engine gets at most this many calls.
MaxCalls == 3

\* The texts of the calls: two short ones and one over the pipeline's limit.
SeqTexts == {Passages[1], Passages[2], Join(" ", <<Passages[1], Passages[5]>>)}

\* The answers of the vectorizer here: a raise, or all similarities alike.
FewAnswers(nr, nj) ==
    {[raised |-> TRUE]}
    \cup { [raised |-> FALSE, overall |-> o, matrix |-> [c \in (1..nr) \X (1..nj) |-> o]] :
             o \in {10, 60} }

\* What the answer of a transform depends on.
Key(vz, r, j) == [fit |-> IF vz.fitted THEN <<vz.resume, vz.job>> ELSE <<>>,
                  on |-> <<r, j>>]

\* v is what the library answers for key.
Answers(key, v) == key \in DOMAIN library => v = library[key]

\* Whether calculate_match_score(r, j) gets as far as fit_transform.
ReachesVectorizer(r, j) ==
    /\ ~KeywordsOf(matcher.nlp, r, pipeline).raised
    /\ ~KeywordsOf(matcher.nlp, j, pipeline).raised
    /\ Vectorizes(r, j)

\* What the vectorizer can answer during that call.
AnswersOf(r, j) ==
    IF ReachesVectorizer(r, j)
    THEN FewAnswers(NumSegments(matcher.semantic_nlp, r, pipeline),
                    NumSegments(matcher.semantic_nlp, j, pipeline))
    ELSE {NoVec}

\* One more call in the history.
Record(r, j, result, fresh) ==
    history' = Append(history, [resume |-> r, job |-> j, result |-> result, fresh |-> fresh])

\* calculate_match_score(r, j) on the engine, after whatever it was called
\* with before.
SeqCall(r, j) ==
    /\ Len(history) < MaxCalls
    /\ \E fitted \in {IF ReachesVectorizer(r, j) THEN fit(vectorizer, r, j) ELSE vectorizer},
          answers \in {AnswersOf(r, j)} :
       \E v \in answers, w \in answers :
          /\ ReachesVectorizer(r, j) =>
               /\ Answers(Key(fitted, r, j), v)
               /\ Answers(Key(FittedOn(r, j), r, j), w)
               /\ Key(fitted, r, j) = Key(FittedOn(r, j), r, j) => v = w
          /\ library' = IF ReachesVectorizer(r, j)
                        THEN (Key(fitted, r, j) :> v) @@ (Key(FittedOn(r, j), r, j) :> w)
                             @@ library
                        ELSE library
          /\ vectorizer' = IF v = NoVec \/ v.raised THEN vectorizer ELSE fitted
          /\ Record(r, j,
                    calculate_match_score(matcher, r, j, [style |-> pipeline, vec |-> v]),
                    calculate_match_score(matcher, r, j, [style |-> pipeline, vec |-> w]))
    /\ UNCHANGED <<matcher, pipeline, callVars, fuseVars, concVars, appVars>>

SeqNext == \E r \in SeqTexts, j \in SeqTexts : SeqCall(r, j)

SeqSpec == Init /\ [][SeqNext]_vars

(***************************************************************************)
(* Two calls at the same time on one engine (ConcSpec)                     *)
(*                                                                         *)
(* The page's cached engine is shared by the sessions of the process, each *)
(* of which runs in a thread of its own.  fit_transform on the shared      *)
(* vectorizer first stores what it learned from the texts of the call in   *)
(* the vectorizer, then computes the matrix from what is stored there; a   *)
(* thread can be suspended between the two.                                *)
(***************************************************************************)

\* Session s calls calculate_match_score(r, j): keyword extraction and
\* segmentation, up to fit_transform or, where the call does not get that
\* far, to its end.
Begin(s, r, j) ==
    /\ sessions[s].pc = "idle"
    /\ IF ReachesVectorizer(r, j)
       THEN sessions' = [sessions EXCEPT ![s] = [pc |-> "fit", resume |-> r, job |-> j]]
       ELSE \E result \in {calculate_match_score(matcher, r, j,
                                                 [style |-> pipeline, vec |-> NoVec])} :
              sessions' = [sessions EXCEPT ![s] =
                              [pc |-> "done", resume |-> r, job |-> j,
                               result |-> result, alone |-> result]]
    /\ UNCHANGED <<engineVars, callVars, fuseVars, seqVars, appVars>>

\* fit_transform of session s stores its fit in the shared vectorizer.
FitStep(s) ==
    /\ sessions[s].pc = "fit"
    /\ vectorizer' = fit(vectorizer, sessions[s].resume, sessions[s].job)
    /\ sessions' = [sessions EXCEPT ![s].pc = "transform"]
    /\ UNCHANGED <<matcher, pipeline, callVars, fuseVars, seqVars, appVars>>

\* fit_transform of session s computes its matrix from what the vectorizer
\* holds now, and the call runs to its end.
TransformStep(s) ==
    /\ sessions[s].pc = "transform"
    /\ \E r \in {sessions[s].resume}, j \in {sessions[s].job} :
       \E v \in AnswersOf(r, j), w \in AnswersOf(r, j) :
          /\ Answers(Key(vectorizer, r, j), v)
          /\ Answers(Key(FittedOn(r, j), r, j), w)
          /\ Key(vectorizer, r, j) = Key(FittedOn(r, j), r, j) => v = w
          /\ library' = (Key(vectorizer, r, j) :> v) @@ (Key(FittedOn(r, j), r, j) :> w)
                           @@ library
          /\ \E result \in {calculate_match_score(matcher, r, j, [style |-> pipeline, vec |-> v])},
                alone \in {calculate_match_score(matcher, r, j, [style |-> pipeline, vec |-> w])} :
               sessions' = [sessions EXCEPT ![s] =
                               [pc |-> "done", resume |-> r, job |-> j,
                                result |-> result, alone |-> alone]]
    /\ UNCHANGED <<engineVars, callVars, fuseVars, history, appVars>>

ConcNext ==
    \/ \E s \in Sessions, r \in SeqTexts, j \in SeqTexts : Begin(s, r, j)
    \/ \E s \in Sessions : FitStep(s)
    \/ \E s \in Sessions : TransformStep(s)

ConcSpec == Init /\ [][ConcNext]_vars

(***************************************************************************)
(* The file processor (utils/file_processor.py)                            *)
(*                                                                         *)
(* An uploaded file is [name, damaged, pages, paragraphs, tables]: pages   *)
(* is what PyPDF2 extracts from each page, paragraphs and tables what      *)
(* python-docx finds; either library raises on a damaged file.             *)
(***************************************************************************)

RECURSIVE AfterLastDot(_, _)
\* name.split('.')[-1]: acc is what was read since the last '.'.
AfterLastDot(name, acc) ==
    IF name = "" THEN acc
    ELSE IF CharAt(name, 1) = "." THEN AfterLastDot(Tail(name), "")
    ELSE AfterLastDot(Tail(name), acc \o CharAt(name, 1))

file_extension(file) == lower(AfterLastDot(file.name, ""))

validate_file_type(file, allowed_types) ==
    IF file = None THEN FALSE
    ELSE file_extension(file) \in { lower(ext) : ext \in allowed_types }

RECURSIVE EachThen(_, _)
\* text += part + sep, for every part.
EachThen(parts, sep) ==
    IF parts = <<>> THEN "" ELSE Head(parts) \o sep \o EachThen(Tail(parts), sep)

RECURSIVE RowsText(_)
\* The loop over the rows of a table: every cell and a blank, then a newline.
RowsText(rows) ==
    IF rows = <<>> THEN "" ELSE EachThen(Head(rows), " ") \o "\n" \o RowsText(Tail(rows))

RECURSIVE TablesText(_)
TablesText(tables) ==
    IF tables = <<>> THEN "" ELSE RowsText(Head(tables)) \o TablesText(Tail(tables))

\* [raised, value]; what the library raised is raised again.
extract_text_from_pdf(file) ==
    IF file.damaged THEN Raised
    ELSE [raised |-> FALSE, value |-> strip(EachThen(file.pages, "\n"))]

extract_text_from_docx(file) ==
    IF file.damaged THEN Raised
    ELSE [raised |-> FALSE,
          value |-> strip(EachThen(file.paragraphs, "\n") \o TablesText(file.tables))]

extract_text_from_file(file) ==
    IF file = None THEN Raised
    ELSE IF file_extension(file) = "pdf" THEN extract_text_from_pdf(file)
    ELSE IF file_extension(file) = "docx" THEN extract_text_from_docx(file)
    ELSE Raised

(***************************************************************************)
(* The page (app.py, AppSpec)                                              *)
(*                                                                         *)
(* Streamlit runs main() from top to bottom when a session opens the page  *)
(* and after every change of a widget, so every action is a change of the  *)
(* widgets followed by one whole run.  page is what that run displayed:    *)
(* the cards, sections, gauges, bars and lists in the order of display,    *)
(* and whether the run called calculate_match_score.  The text of an       *)
(* exception is left out of the cards that quote it.                       *)
(***************************************************************************)

Card(card_type, caption, content) ==
    [item |-> "card", card_type |-> card_type, title |-> caption, content |-> content]

Section(caption) == [item |-> "section", title |-> caption]

Heading(caption) == [item |-> "heading", title |-> caption]

Gauge(score, label) == [item |-> "gauge", label |-> label, score |-> score]

ProgressBar(percentage, label) ==
    [item |-> "progress_bar", label |-> label, percentage |-> percentage]

BulletList(caption, skills) ==
    [item |-> "bullet_list", title |-> caption, skills |-> skills]

TextArea(label, value) == [item |-> "text_area", label |-> label, value |-> value]

Written(text) == [item |-> "write", text |-> text]

StError(text) == [item |-> "st.error", text |-> text]

DownloadButton == [item |-> "download_button", label |-> "Download PDF Report"]

AnalysisErrorCard == Card("error", "Error", "Error during analysis: ")

\* text[:500] + "..." if len(text) > 500 else text
PreviewText(text) == IF Len(text) > 500 THEN Take(text, 500) \o "..." ELSE text

\* The files a user uploads: a one-page PDF, a scanned PDF with no text in
\* it, a DOCX that python-docx cannot open, a DOCX with one paragraph, and
\* a DOCX whose text is in a table.
Files ==
    { [name |-> "cv.pdf", damaged |-> FALSE, pages |-> <<Passages[1]>>,
       paragraphs |-> <<>>, tables |-> <<>>],
      [name |-> "scan.PDF", damaged |-> FALSE, pages |-> <<"", " ">>,
       paragraphs |-> <<>>, tables |-> <<>>],
      [name |-> "broken.docx", damaged |-> TRUE, pages |-> <<>>,
       paragraphs |-> <<>>, tables |-> <<>>],
      [name |-> "job.docx", damaged |-> FALSE, pages |-> <<>>,
       paragraphs |-> <<Passages[2]>>, tables |-> <<>>],
      [name |-> "long.v2.docx", damaged |-> FALSE, pages |-> <<>>,
       paragraphs |-> <<>>, tables |-> << << <<Passages[1], Passages[5]>> >> >>] }

\* The texts a user pastes.
Pastes == {"", "  ", Passages[1], Passages[2], Join(" ", <<Passages[1], Passages[5]>>)}

InputMethods == {"Upload File", "Paste Text"}

ResumeMessages ==
    [loaded |-> "Resume loaded successfully!",
     empty |-> "Could not extract text from resume. Please check the file.",
     failed |-> "Error processing resume: ",
     received |-> "Resume text received!",
     area |-> "Resume Content"]

JobMessages ==
    [loaded |-> "Job description loaded successfully!",
     empty |-> "Could not extract text from job description.",
     failed |-> "Error processing job description: ",
     received |-> "Job description text received!",
     area |-> "Job Description"]

\* The body of "if validate_file_type(...)": extracted is what
\* extract_text_from_file gave.  The text stays "" when it raised.
PreviewOfExtracted(extracted, m) ==
    IF extracted.raised
    THEN [text |-> "", shown |-> <<Card("error", "Error", m.failed)>>]
    ELSE IF extracted.value # ""
    THEN [text |-> extracted.value,
          shown |-> <<Card("success", "Success", m.loaded),
                      TextArea(m.area, PreviewText(extracted.value))>>]
    ELSE [text |-> "", shown |-> <<Card("error", "Error", m.empty)>>]

\* One input column: the text it leaves in resume_text or job_text and what
\* it displays.
InputColumn(method, file, paste, m) ==
    IF method = "Upload File"
    THEN IF file = None THEN [text |-> "", shown |-> <<>>]
         ELSE IF validate_file_type(file, {"pdf", "docx"})
         THEN PreviewOfExtracted(extract_text_from_file(file), m)
         ELSE [text |-> "",
               shown |-> <<Card("warning", "Invalid File",
                               "Please upload PDF or DOCX files only.")>>]
    ELSE IF paste # ""
    THEN [text |-> paste,
          shown |-> <<Card("success", "Success", m.received),
                      TextArea(m.area, PreviewText(paste))>>]
    ELSE [text |-> paste, shown |-> <<>>]

\* has_resume and has_job without the strip() of the pasted text.
has_input_unstripped(method, file, text) ==
    \/ method = "Upload File" /\ file # None
    \/ method = "Paste Text" /\ Len(text) > 0

\* has_resume and has_job
has_input(method, file, text) ==
    \/ method = "Upload File" /\ file # None
    \/ method = "Paste Text" /\ Len(strip(text)) > 0

\* load_nlp_matcher() under st.cache_resource: the engine is constructed on
\* the first call of the process and what that call returned, None too, is
\* what every later call returns.  loads counts the constructions and the
\* calls of spacy.load.
load_nlp_matcher(cached, counts, pl) ==
    IF cached # NotConstructed
    THEN [matcher |-> cached, loads |-> counts, shown |-> <<>>]
    ELSE IF pl = "broken"
    THEN [matcher |-> None,
          loads |-> [counts EXCEPT !.engine = @ + 1, !.pipeline = @ + 1],
          shown |-> <<StError("Failed to load NLP matcher: ")>>]
    ELSE [matcher |-> NewMatcher(pl # "absent"),
          loads |-> [counts EXCEPT !.engine = @ + 1, !.pipeline = @ + 2,
                                   !.warnings = @ + (IF pl = "absent" THEN 2 ELSE 0)],
          shown |-> <<>>]

\* card_type_map.get(suggestion_type, 'suggestion')
card_type_map(suggestion_type) ==
    CASE suggestion_type = "success" -> "success"
      [] suggestion_type = "improvement" -> "suggestion"
      [] suggestion_type = "focus" -> "warning"
      [] suggestion_type = "strategy" -> "suggestion"
      [] suggestion_type = "technical" -> "warning"
      [] suggestion_type = "soft_skill" -> "warning"
      [] suggestion_type = "keyword" -> "warning"
      [] OTHER -> "suggestion"

RECURSIVE SuggestionCards(_, _)
\* for i, suggestion in enumerate(suggestions[:8], 1)
SuggestionCards(listed, i) ==
    IF listed = <<>> THEN <<>>
    ELSE <<Card(card_type_map(Head(listed).type), "Suggestion " \o IntStr(i),
                Head(listed).text)>>
         \o SuggestionCards(Tail(listed), i + 1)

\* One column of the Missing Skills section.
MissingColumn(heading, caption, missing, listed, covered) ==
    <<Heading(heading)>>
    \o (IF missing # {} THEN <<BulletList(caption, Take(listed, 10))>>
        ELSE <<Card("success", "Great Job!", covered)>>)

\* What the handler displays from the result on: report_ok is whether the
\* report generator (utils/pdf_generator.py) returned a report.
ResultsShown(result, order, listed, report_ok) ==
    <<Card("success", "Analysis Completed", "Your resume analysis is ready!"),
      Section("Match Results"),
      Gauge(result.overall_score, "Overall Match Score"),
      Heading("Detailed Scores"),
      ProgressBar(result.keyword_score, "Keyword Match"),
      ProgressBar(result.technical_score, "Technical Skills"),
      ProgressBar(result.soft_skills_score, "Soft Skills")>>
    \o (IF result.semantic_score > 0
        THEN <<Heading("Semantic Analysis"),
               ProgressBar(result.semantic_score, "Semantic Similarity")>>
        ELSE <<>>)
    \o <<Section("Missing Skills")>>
    \o MissingColumn("Technical Skills", "Missing Technical Skills:",
                     result.missing.technical, order.technical,
                     "All technical skills are covered")
    \o MissingColumn("Soft Skills", "Missing Soft Skills:",
                     result.missing.soft_skills, order.soft_skills,
                     "All soft skills are covered")
    \o <<Section("Improvement Suggestions")>>
    \o SuggestionCards(Take(listed, 8), 1)
    \o <<Section("Download Report")>>
    \o (IF report_ok THEN <<DownloadButton>>
        ELSE <<Card("error", "Error", "Could not generate PDF report: ")>>)

\* What a run leaves behind when it did not call the engine: loaded is what
\* load_nlp_matcher gave, r and j the texts of the two columns.
Displayed(loaded, shown, r, j) ==
    [matcher |-> loaded.matcher, loads |-> loaded.loads, vectorizer |-> vectorizer,
     page |-> [shown |-> shown, invoked |-> FALSE],
     pc |-> "idle", resume_text |-> r, job_text |-> j, vec |-> NoVec,
     analysis_result |-> NoResult, set_order |-> NoOrder, suggestions |-> <<>>]

\* What a run leaves behind when calculate_match_score raised: the except
\* clause of the handler displays the error.
Failed(loaded, shown, r, j) ==
    [Displayed(loaded, shown \o <<AnalysisErrorCard,
                 Written("Please try again or contact support if the issue persists.")>>,
               r, j)
       EXCEPT !.page.invoked = TRUE, !.pc = "failed"]

\* What a run leaves behind when calculate_match_score returned result.
Analyzed(loaded, shown, r, j, v, result, order, listed, report_ok) ==
    [matcher |-> loaded.matcher, loads |-> loaded.loads, vectorizer |-> Refit(r, j, v),
     page |-> [shown |-> shown \o ResultsShown(result, order, listed, report_ok),
               invoked |-> TRUE],
     pc |-> "suggested", resume_text |-> r, job_text |-> j, vec |-> v,
     analysis_result |-> result, set_order |-> order, suggestions |-> listed]

\* The handler from matcher.calculate_match_score(resume_text, job_text)
\* on, result being what the call gave.
AfterCall(loaded, shown, r, j, v, result) ==
    IF result.raised THEN {Failed(loaded, shown, r, j)}
    ELSE { Analyzed(loaded, shown, r, j, v, result, order,
                    generate_suggestions(result, order), report_ok) :
             order \in [technical : Orders(result.missing.technical),
                        soft_skills : Orders(result.missing.soft_skills)],
             report_ok \in BOOLEAN }

\* "if analyze_button:", the handler of the button.
AnalyzeClicked(w, loaded, shown, resume, job) ==
    IF ~(/\ has_input(w.resume_input_method, w.resume_file, resume.text)
         /\ has_input(w.job_input_method, w.job_file, job.text))
    THEN {Displayed(loaded,
                    shown \o <<Card("warning", "Missing Input",
                        "Please provide both a resume and a job description before analyzing.")>>,
                    resume.text, job.text)}
    ELSE LET extracted ==
                 IF w.resume_input_method = "Upload File" /\ w.resume_file # None
                 THEN extract_text_from_file(w.resume_file)
                 ELSE [raised |-> FALSE, value |-> resume.text]
         IN IF extracted.raised
            THEN {[Failed(loaded, shown, resume.text, job.text)
                     EXCEPT !.page.invoked = FALSE, !.pc = "idle"]}
            ELSE IF extracted.value = "" \/ job.text = ""
            THEN {Displayed(loaded,
                            shown \o <<Card("error", "Error",
                                "Could not extract text from one or both inputs. Please try again.")>>,
                            extracted.value, job.text)}
            ELSE UNION { AfterCall(loaded, shown, extracted.value, job.text, v,
                                   calculate_match_score(loaded.matcher, extracted.value,
                                                         job.text,
                                                         [style |-> pipeline, vec |-> v])) :
                           v \in AnswersOf(extracted.value, job.text) }

\* main() from the two input columns on.
Columns(w, loaded, resume, job) ==
    IF w.analyze_button
    THEN AnalyzeClicked(w, loaded, resume.shown \o job.shown, resume, job)
    ELSE {Displayed(loaded, resume.shown \o job.shown, resume.text, job.text)}

\* main() from load_nlp_matcher() on.
Loaded(w, loaded) ==
    IF ~IsEngine(loaded.matcher)
    THEN {Displayed(loaded,
                    loaded.shown \o <<Card("error", "Error",
                        "Failed to initialize the matching system. Please refresh the page.")>>,
                    "", "")}
    ELSE Columns(w, loaded,
                 InputColumn(w.resume_input_method, w.resume_file, w.resume_paste,
                             ResumeMessages),
                 InputColumn(w.job_input_method, w.job_file, w.job_paste, JobMessages))

\* main(): every way one run of the page with the widgets w can end.
main(w) ==
    IF ~loads.full_features
    THEN {Displayed([matcher |-> matcher, loads |-> loads],
                    <<Card("error", "Error",
                        "Some features are not available due to import issues. Please check the logs.")>>,
                    "", "")}
    ELSE Loaded(w, load_nlp_matcher(matcher, loads, pipeline))

\* The widgets become w and the page runs.
Rerun(w) ==
    /\ widgets' = w
    /\ \E out \in main(w) :
          /\ matcher' = out.matcher
          /\ loads' = out.loads
          /\ vectorizer' = out.vectorizer
          /\ page' = out.page
          /\ pc' = out.pc
          /\ resume_text' = out.resume_text
          /\ job_text' = out.job_text
          /\ vec' = out.vec
          /\ analysis_result' = out.analysis_result
          /\ set_order' = out.set_order
          /\ suggestions' = out.suggestions
    /\ UNCHANGED <<pipeline, semantic_analysis, fuseVars, seqVars, concVars>>

\* The widgets are displayed: the page is past its two early returns.
Interactive == loads.full_features /\ IsEngine(matcher)

\* A session opens the page, or the browser reloads it.
OpenPage == \E w \in {DefaultWidgets} : Rerun(w)

\* A widget that is not displayed in a run loses its value.
SelectResumeMethod(method) ==
    /\ Interactive
    /\ method # widgets.resume_input_method
    /\ Rerun([widgets EXCEPT !.resume_input_method = method, !.resume_file = None,
                             !.resume_paste = "", !.analyze_button = FALSE])

UploadResume(file) ==
    /\ Interactive
    /\ widgets.resume_input_method = "Upload File"
    /\ file # widgets.resume_file
    /\ Rerun([widgets EXCEPT !.resume_file = file, !.analyze_button = FALSE])

PasteResume(text) ==
    /\ Interactive
    /\ widgets.resume_input_method = "Paste Text"
    /\ text # widgets.resume_paste
    /\ Rerun([widgets EXCEPT !.resume_paste = text, !.analyze_button = FALSE])

SelectJobMethod(method) ==
    /\ Interactive
    /\ method # widgets.job_input_method
    /\ Rerun([widgets EXCEPT !.job_input_method = method, !.job_file = None,
                             !.job_paste = "", !.analyze_button = FALSE])

UploadJob(file) ==
    /\ Interactive
    /\ widgets.job_input_method = "Upload File"
    /\ file # widgets.job_file
    /\ Rerun([widgets EXCEPT !.job_file = file, !.analyze_button = FALSE])

PasteJob(text) ==
    /\ Interactive
    /\ widgets.job_input_method = "Paste Text"
    /\ text # widgets.job_paste
    /\ Rerun([widgets EXCEPT !.job_paste = text, !.analyze_button = FALSE])

\* The button is True in the run its click starts, and in no other.
ClickAnalyze ==
    /\ Interactive
    /\ Rerun([widgets EXCEPT !.analyze_button = TRUE])

\* The process before the first session: nothing is cached, and the imports
\* at the top of app.py have succeeded or not.
AppInit ==
    /\ matcher = NotConstructed
    /\ pipeline \in Pipelines
    /\ vectorizer = Unfitted
    /\ CallInit
    /\ FuseIdle /\ SeqIdle /\ ConcIdle
    /\ widgets = DefaultWidgets
    /\ page = NoPage
    /\ loads \in {[NoLoads EXCEPT !.full_features = f] : f \in BOOLEAN}

AppNext ==
    \/ OpenPage
    \/ \E method \in InputMethods : SelectResumeMethod(method)
    \/ \E file \in Files \cup {None} : UploadResume(file)
    \/ \E text \in Pastes : PasteResume(text)
    \/ \E method \in InputMethods : SelectJobMethod(method)
    \/ \E file \in Files \cup {None} : UploadJob(file)
    \/ \E text \in Pastes : PasteJob(text)
    \/ ClickAnalyze

AppSpec == AppInit /\ [][AppNext]_vars

(***************************************************************************)
(* Properties of one call on a fresh engine (Spec)                         *)
(***************************************************************************)

Categories == {"technical", "soft_skills", "general"}

\* The client holds the result of a calculate_match_score call.
Scored == pc \in {"scored", "suggested", "resuggested"}

\* C1: in every result and for each category X, matches[X] and missing[X]
\* together are the job description's keywords of category X, and no
\* keyword is in both.
C1_MatchesAndMissingPartitionJob ==
    Scored =>
        LET job == KeywordsOf(matcher.nlp, job_text, pipeline)
        IN \A X \in Categories :
             /\ analysis_result.matches[X] \cup analysis_result.missing[X] = job[X]
             /\ analysis_result.matches[X] \cap analysis_result.missing[X] = {}

\* A result with technical keywords of the job both matched and missing.
C1_Witness ==
    /\ Scored
    /\ analysis_result.matches.technical # {}
    /\ analysis_result.missing.technical # {}

\* C2: the five scores of every result lie in [0, 100] (0..1000 tenths).
C2_ScoresInRange ==
    Scored =>
        /\ analysis_result.overall_score \in 0..1000
        /\ analysis_result.keyword_score \in 0..1000
        /\ analysis_result.semantic_score \in 0..1000
        /\ analysis_result.technical_score \in 0..1000
        /\ analysis_result.soft_skills_score \in 0..1000

\* A result whose score is 100 after a bonus for strong matches.
C2_Witness ==
    /\ Scored
    /\ analysis_result.overall_score = 1000
    /\ analysis_result.semantic_analysis.strong_matches # <<>>

\* Whether self.nlp raises on the cleaned text.
CleanedLength == [text \in TextPool |-> Len(clean_text(text))]

PipelineRaisesOn(text) == matcher.nlp /\ CleanedLength[text] > max_length

\* C3: with both texts empty the call returns a result whose overall score
\* is 0; a score whose denominator is empty (the job's keywords, its
\* technical or soft-skill keywords, the job's words in the fallback) is 0,
\* and a call fails only when the pipeline raised on one of its texts.
C3_EmptyDenominatorsScoreZero ==
    /\ (pc \in {"scored", "suggested", "resuggested", "failed"}
           /\ resume_text = "" /\ job_text = "")
         => (HasResult(analysis_result) /\ analysis_result.overall_score = 0)
    /\ pc = "failed" => (PipelineRaisesOn(resume_text) \/ PipelineRaisesOn(job_text))
    /\ Scored =>
         LET job == KeywordsOf(matcher.nlp, job_text, pipeline)
         IN /\ job.all = {} => analysis_result.keyword_score = 0
            /\ job.technical = {} => analysis_result.technical_score = 0
            /\ job.soft_skills = {} => analysis_result.soft_skills_score = 0
            /\ (/\ analysis_result.semantic_analysis.conceptual_gaps = <<FallbackNote>>
                /\ LowerWordsOf(job_text) = {})
                 => analysis_result.semantic_score = 0

\* The call with both texts empty has returned.
C3_Witness ==
    /\ Scored
    /\ resume_text = ""
    /\ job_text = ""
    /\ analysis_result.overall_score = 0
    /\ analysis_result.total_job_keywords = 0

\* Everything the five stages of generate_suggestions append, in order.
Appended == Concat(StageOutputs(analysis_result, set_order))

\* out is the first min(8, n) of the n elements of all.
IsFirstEightOf(out, all) ==
    /\ Len(out) <= 8
    /\ Len(out) = Min(8, Len(all))
    /\ \A i \in 1..Len(out) : out[i] = all[i]

\* C5: generate_suggestions returns at most 8 suggestions: the first
\* min(8, n) of the n its stages appended, in that order.
C5_SuggestionsAreFirstEight ==
    pc = "suggested" => IsFirstEightOf(suggestions, Appended)

\* The stages appended nine suggestions and the strategy one was dropped.
C5_Witness ==
    /\ pc = "suggested"
    /\ Len(Appended) = 9
    /\ Appended[9].type = "strategy"
    /\ Len(suggestions) = 8

\* The word-overlap answer for the texts of the call: 100 * |common| / |job
\* words|, 0 for a job description without words, and no matches.
IsWordOverlap(sem) ==
    LET resume_words == LowerWordsOf(resume_text)
        job_words == LowerWordsOf(job_text)
        common == Cardinality(resume_words \cap job_words)
    IN /\ ~IsRaised(sem)
       /\ QEq(sem.overall_semantic_similarity,
              IF job_words = {} THEN Q(0, 1) ELSE Q(100 * common, Cardinality(job_words)))
       /\ sem.semantic_matches = <<>>
       /\ sem.missing_concepts = <<>>
       /\ sem.strong_matches = <<>>
       /\ sem.conceptual_gaps = <<FallbackNote>>

\* Whether something raised inside calculate_semantic_similarity: the
\* pipeline on a text over its limit, or the vectorizer.
SemanticStepRaised ==
    \/ SegmentsOf(matcher.semantic_nlp, resume_text, pipeline).raised
    \/ SegmentsOf(matcher.semantic_nlp, job_text, pipeline).raised
    \/ vec.raised

\* C8: calculate_semantic_similarity never raises; when segmentation or
\* vectorization raised it returns the word-overlap answer, and
\* calculate_match_score fails only when keyword extraction raised.
C8_SemanticNeverRaises ==
    /\ pc = "analyzed" =>
         /\ ~IsRaised(semantic_analysis)
         /\ SemanticStepRaised => IsWordOverlap(semantic_analysis)
    /\ Scored =>
         (SemanticStepRaised => IsWordOverlap(analysis_result.semantic_analysis))
    /\ pc = "failed" => (PipelineRaisesOn(resume_text) \/ PipelineRaisesOn(job_text))

\* calculate_match_score returned a result although the vectorizer raised.
C8_Witness ==
    /\ Scored
    /\ vec.raised
    /\ analysis_result.semantic_analysis.conceptual_gaps = <<FallbackNote>>
    /\ analysis_result.keyword_score > 0

\* The direct call answered by word overlap after the pipeline raised.
C8_WitnessSegmentation ==
    /\ pc = "analyzed"
    /\ matcher.semantic_nlp
    /\ Len(CollapseSpaces(strip(resume_text))) > max_length
    /\ IsWordOverlap(semantic_analysis)

\* Every keyword the texts of the model yield.
KeywordUniverse ==
    UNION { IF KeywordTable[has_nlp][text][style].raised THEN {}
            ELSE KeywordTable[has_nlp][text][style].all :
              has_nlp \in BOOLEAN, text \in TextPool, style \in ParseStyles }

\* For each of them, whether it contains a technical term and whether it
\* contains a soft-skill term.
TermsIn ==
    [k \in KeywordUniverse |-> [technical |-> IsTechnical(k), soft |-> IsSoft(k)]]

\* C10: technical, soft_skills and general are pairwise disjoint and their
\* union is all; a keyword containing a technical term is technical even
\* when it also contains a soft-skill term, one containing only a
\* soft-skill term is soft_skills, any other general.
C10_CategoriesPartitionAll ==
    Scored =>
        \A side \in {"resume", "job"} :
            LET ks == analysis_result.keywords_found[side]
            IN /\ ks.technical \cup ks.soft_skills \cup ks.general = ks.all
               /\ ks.technical \cap ks.soft_skills = {}
               /\ ks.technical \cap ks.general = {}
               /\ ks.soft_skills \cap ks.general = {}
               /\ \A k \in ks.all :
                    /\ TermsIn[k].technical => k \in ks.technical
                    /\ (~TermsIn[k].technical /\ TermsIn[k].soft) => k \in ks.soft_skills
                    /\ (~TermsIn[k].technical /\ ~TermsIn[k].soft) => k \in ks.general

\* A keyword of the job holds a technical and a soft-skill term.
C10_Witness ==
    /\ Scored
    /\ \E k \in analysis_result.keywords_found.job.all :
          TermsIn[k].technical /\ TermsIn[k].soft
    /\ analysis_result.keywords_found.job.soft_skills # {}
    /\ analysis_result.keywords_found.job.general # {}

(***************************************************************************)
(* Properties of the fused score (FuseSpec)                                *)
(***************************************************************************)

\* 0.6 * k + 0.4 * s + min(2 * n, 10), kept within [0, 100].
ClampedFusion(k, s, n) ==
    LET sum == QAdd(Q(6 * k.n * s.d + 4 * s.n * k.d, 10 * k.d * s.d),
                    Q(Min(2 * n, 10), 1))
    IN IF QLess(sum, Q(0, 1)) THEN Q(0, 1)
       ELSE IF QLess(Q(100, 1), sum) THEN Q(100, 1)
       ELSE sum

\* tenths is a multiple of 0.1 nearest to q: |tenths / 10 - q| <= 0.05.
IsRoundedTo1(tenths, q) ==
    /\ 2 * tenths * q.d - 20 * q.n <= q.d
    /\ 20 * q.n - 2 * tenths * q.d <= q.d

\* C4: for keyword and semantic scores in [0, 100] and n strong matches the
\* fused score is clamp(0.6 * k + 0.4 * s + min(2 * n, 10), 0, 100) rounded
\* to one decimal; 80, 50 and 3 strong matches give 74.0.
C4_FusedScoreIsClampedSum ==
    fused.called =>
        /\ IsRoundedTo1(fused.value.enhanced_overall_score,
                        ClampedFusion(fused.keyword_score, fused.semantic_score, fused.strong))
        /\ (/\ fused.keyword_score = Q(80, 1)
            /\ fused.semantic_score = Q(50, 1)
            /\ fused.strong = 3)
             => fused.value.enhanced_overall_score = 740

\* More than five strong matches, and a score the bonus leaves under 100.
C4_Witness ==
    /\ fused.called
    /\ fused.strong > 5
    /\ fused.value.enhanced_overall_score = 600
    /\ QEq(fused.keyword_score, Q(50, 1))
    /\ QEq(fused.semantic_score, Q(50, 1))

(***************************************************************************)
(* Properties of calls one after the other (SeqSpec)                       *)
(***************************************************************************)

\* The call took the vectorized path.
Vectorized(call) ==
    /\ HasResult(call.result)
    /\ call.result.semantic_analysis.conceptual_gaps # <<FallbackNote>>

\* C6: on one engine the result of calculate_match_score(r, j) depends only
\* on (r, j): two calls with the same texts return the same, and every call
\* returns what an engine constructed for it alone returns.
C6_ResultDependsOnInputsOnly ==
    \A a \in 1..Len(history) :
        /\ history[a].result = history[a].fresh
        /\ \A b \in 1..Len(history) :
             (history[a].resume = history[b].resume /\ history[a].job = history[b].job)
               => history[a].result = history[b].result

\* The same texts before and after a call with other texts, the vectorizer
\* fitted each time.
C6_Witness ==
    /\ Len(history) = 3
    /\ history[1].resume = history[3].resume
    /\ history[1].job = history[3].job
    /\ history[2].resume # history[1].resume
    /\ history[2].job # history[1].job
    /\ \A a \in 1..3 : Vectorized(history[a])

(***************************************************************************)
(* Properties of two calls at the same time (ConcSpec)                     *)
(***************************************************************************)

\* C7: each of two calculate_match_score calls running at the same time on
\* the one engine returns what it returns when it runs alone, however their
\* fit and transform steps interleave.
C7_ConcurrentCallsReturnAsAlone ==
    \A s \in Sessions :
        sessions[s].pc = "done" => sessions[s].result = sessions[s].alone

\* C7, what holds instead: a call whose transform reads the fit it stored
\* itself returns what it returns alone.
C7_OwnFitReturnsAsAlone ==
    [][\A s \in Sessions :
         (/\ sessions[s].pc = "transform"
          /\ sessions'[s].pc = "done"
          /\ vectorizer = FittedOn(sessions[s].resume, sessions[s].job))
           => sessions'[s].result = sessions'[s].alone]_vars

(***************************************************************************)
(* Properties of the page (AppSpec)                                        *)
(***************************************************************************)

\* Whether s begins with prefix.
StartsWith(s, prefix) ==
    Len(s) >= Len(prefix) /\ SubSeq(s, 1, Len(prefix)) = prefix

\* What a run displays only from a result: the sections of the results, the
\* scores, the missing skills, the suggestions and the report.
ShowsResults(shown) ==
    \E i \in DOMAIN shown :
        \/ shown[i].item \in {"section", "gauge", "progress_bar", "bullet_list",
                              "download_button"}
        \/ /\ shown[i].item = "card"
           /\ \/ shown[i].title \in {"Analysis Completed", "Great Job!"}
              \/ StartsWith(shown[i].title, "Suggestion ")

\* The run called calculate_match_score and the pipeline raised on one of
\* the two texts while their keywords were extracted.
ExtractionFailed ==
    /\ page.invoked
    /\ PipelineRaisesOn(resume_text) \/ PipelineRaisesOn(job_text)

\* C9: when keyword extraction fails for either text, calculate_match_score
\* raises and returns no result, not a partial one either, and the page
\* reports the error: it displays the "Error during analysis" card, no
\* score, no missing skill and no suggestion, and generates no suggestions.
C9_FailedExtractionIsReportedWithoutResult ==
    ExtractionFailed =>
        /\ pc = "failed"
        /\ analysis_result = NoResult
        /\ suggestions = <<>>
        /\ \E i \in DOMAIN page.shown : page.shown[i] = AnalysisErrorCard
        /\ ~ShowsResults(page.shown)

\* A run called the engine with an uploaded resume the pipeline raised on.
C9_Witness ==
    /\ ExtractionFailed
    /\ widgets.resume_input_method = "Upload File"
    /\ PipelineRaisesOn(resume_text)
    /\ ~PipelineRaisesOn(job_text)

\* The input of one column gives a text to analyze: a pasted text that is
\* not blank, or an uploaded file whose text can be extracted and is not
\* empty.
GivesText(method, file, paste) ==
    IF method = "Upload File"
    THEN /\ file # None
         /\ ~extract_text_from_file(file).raised
         /\ strip(extract_text_from_file(file).value) # ""
    ELSE strip(paste) # ""

BothGiveText ==
    /\ GivesText(widgets.resume_input_method, widgets.resume_file, widgets.resume_paste)
    /\ GivesText(widgets.job_input_method, widgets.job_file, widgets.job_paste)

\* The messages that end a run of the handler without an analysis.
RefusalContents ==
    {"Please provide both a resume and a job description before analyzing.",
     "Could not extract text from one or both inputs. Please try again.",
     "Error during analysis: "}

\* C16: in the page, calculate_match_score is not invoked when the resume
\* or the job text is empty, whitespace-only or could not be extracted: the
\* run ends with an error or missing-input message and displays no
\* analysis, results or suggestions.
C16_NoAnalysisWithoutBothTexts ==
    /\ page.invoked => (BothGiveText /\ strip(resume_text) # "" /\ strip(job_text) # "")
    /\ (widgets.analyze_button /\ ~BothGiveText) =>
           /\ ~page.invoked
           /\ analysis_result = NoResult
           /\ suggestions = <<>>
           /\ ~ShowsResults(page.shown)
           /\ \E i \in DOMAIN page.shown :
                 /\ page.shown[i].item = "card"
                 /\ page.shown[i].card_type \in {"error", "warning"}
                 /\ page.shown[i].content \in RefusalContents

\* The button was clicked with a pasted job description and, as the resume,
\* an uploaded file without text.
C16_Witness ==
    /\ widgets.analyze_button
    /\ widgets.resume_input_method = "Upload File"
    /\ widgets.resume_file # None
    /\ ~extract_text_from_file(widgets.resume_file).raised
    /\ GivesText(widgets.job_input_method, widgets.job_file, widgets.job_paste)
    /\ ~BothGiveText
    /\ ~page.invoked

\* The button was clicked with a whitespace-only pasted resume.
C16_WitnessBlankPaste ==
    /\ widgets.analyze_button
    /\ widgets.resume_input_method = "Paste Text"
    /\ widgets.resume_paste # ""
    /\ strip(widgets.resume_paste) = ""
    /\ GivesText(widgets.job_input_method, widgets.job_file, widgets.job_paste)
    /\ ~page.invoked

\* C23: for every number n of strong matches the semantic_bonus of the
\* breakdown is the bonus that was added to the score, min(2 * n, 10), and
\* the components and weights of the breakdown are the ones the score was
\* computed from.
C23_BreakdownReportsWhatWasUsed ==
    fused.called =>
        /\ fused.value.semantic_bonus = Min(2 * fused.strong, 10)
        /\ fused.value.keyword_weight = 60
        /\ fused.value.semantic_weight = 40
        /\ IsRoundedTo1(fused.value.keyword_component, fused.keyword_score)
        /\ IsRoundedTo1(fused.value.semantic_component, fused.semantic_score)

\* C24: over any sequence of requests in one process the engine is
\* constructed at most once, the pipeline model is loaded at most once
\* (not once per call, nor once per component), and the warning about an
\* unavailable pipeline is emitted at construction only.
C24_EngineAndPipelineLoadedOnce ==
    /\ loads.engine <= 1
    /\ loads.pipeline <= 1
    /\ loads.warnings > 0 => (loads.engine = 1 /\ pipeline = "absent")
    /\ matcher # NotConstructed => loads.engine = 1

(***************************************************************************)
(* Claims about the scores and the suggestions of one call (Spec)          *)
(***************************************************************************)

\* C11: keyword_score is 100 * |resume.all \cap job.all| / |job.all| (0 for
\* a job without keywords), technical_score is 100 * |matches.technical| /
\* max(|job.technical|, 1), soft_skills_score likewise, each rounded to one
\* decimal; total_job_keywords is |job.all| and total_matches is
\* |matches.all|.
C11_ScoresAreRoundedRatios ==
    Scored =>
        LET resume == KeywordsOf(matcher.nlp, resume_text, pipeline)
            job == KeywordsOf(matcher.nlp, job_text, pipeline)
            common == Cardinality(resume.all \cap job.all)
            r == analysis_result
        IN /\ IF job.all = {} THEN r.keyword_score = 0
              ELSE IsRoundedTo1(r.keyword_score,
                                  Q(100 * common, Cardinality(job.all)))
           /\ IsRoundedTo1(r.technical_score,
                             Q(100 * Cardinality(r.matches.technical),
                               Max(Cardinality(job.technical), 1)))
           /\ IsRoundedTo1(r.soft_skills_score,
                             Q(100 * Cardinality(r.matches.soft_skills),
                               Max(Cardinality(job.soft_skills), 1)))
           /\ r.total_job_keywords = Cardinality(job.all)
           /\ r.total_matches = Cardinality(r.matches.all)
           /\ r.matches.all = resume.all \cap job.all

\* A result whose keyword score is a ratio that one decimal does not hold,
\* for a job that has technical and soft skill keywords.
C11_Witness ==
    /\ Scored
    /\ analysis_result.total_matches > 0
    /\ (1000 * analysis_result.total_matches) % analysis_result.total_job_keywords # 0
    /\ analysis_result.technical_score > 0
    /\ analysis_result.missing.soft_skills # {}

\* C12: the first suggestion is the headline, and its type is decided by
\* overall_score alone: "success" from 70 on, "improvement" from 40 to
\* below 70, "focus" below 40.
C12_HeadlineTypeFollowsOverallScore ==
    pc = "suggested" =>
        /\ suggestions # <<>>
        /\ suggestions[1].type =
               (IF analysis_result.overall_score >= 700 THEN "success"
                ELSE IF analysis_result.overall_score >= 400 THEN "improvement"
                ELSE "focus")

\* Suggestions with an "improvement" headline for a result whose keyword
\* score alone is in the "success" band.
C12_Witness ==
    /\ pc = "suggested"
    /\ analysis_result.overall_score >= 400
    /\ analysis_result.overall_score < 700
    /\ analysis_result.keyword_score >= 700
    /\ suggestions[1].type = "improvement"
    /\ Len(suggestions) > 1

C15_SuggestionsIgnoreIterationOrder ==
    pc = "suggested" =>
        \A order \in [technical : Orders(analysis_result.missing.technical),
                      soft_skills : Orders(analysis_result.missing.soft_skills)] :
            generate_suggestions(analysis_result, order) = suggestions

\* The semantic analysis of the call took the fallback path: a text gave
\* no segments, or segmentation or the vectorizer raised.
OnFallbackPath == ~Vectorizes(resume_text, job_text) \/ vec.raised

\* C20: on the fallback path the SemanticAnalysis has empty
\* semantic_matches, strong_matches, missing_concepts and conceptual_gaps,
\* so that it gives no semantic and no conceptual suggestion.
C20_FallbackCollectionsAreEmpty ==
    /\ (pc = "analyzed" /\ OnFallbackPath) =>
           /\ semantic_analysis.semantic_matches = <<>>
           /\ semantic_analysis.strong_matches = <<>>
           /\ semantic_analysis.missing_concepts = <<>>
           /\ semantic_analysis.conceptual_gaps = <<>>
    /\ (pc = "suggested" /\ OnFallbackPath) =>
           \A i \in DOMAIN suggestions : suggestions[i].type \notin {"semantic", "conceptual"}

\* C25: every keyword of every set of a KeywordSet, on the linguistic and
\* on the fallback extraction path, is lower-cased, has no leading or
\* trailing whitespace and has at most 3 words, the keywords that come
\* from named entities too.
C25_KeywordsAreShortTrimmedLowerCase ==
    Scored =>
        \A side \in {"resume", "job"} :
            \A X \in Categories \cup {"all"} :
                \A keyword \in analysis_result.keywords_found[side][X] :
                    /\ lower(keyword) = keyword
                    /\ strip(keyword) = keyword
                    /\ NumWords(keyword) <= 3

RECURSIVE SynonymsFor(_, _)
\* " " and the synonyms of every entry whose anchor occurs in original, in
\* the order of the entries.
SynonymsFor(original, entries) ==
    IF entries = <<>> THEN ""
    ELSE (IF Contains(Head(entries).main_skill, original)
          THEN " " \o Join(" ", Head(entries).synonyms) ELSE "")
         \o SynonymsFor(original, Tail(entries))

\* The call reached the synonym expansion of its two texts.
Expanded == pc \in {"analyzed", "scored"} /\ Vectorizes(resume_text, job_text)

\* C28: synonym expansion appends the synonyms of an anchor only if the
\* anchor occurs in the original lower-cased text: the synonyms appended
\* for one anchor never bring in those of another, and the original text
\* is kept as the prefix of the enhanced text.
C28_SynonymsOnlyForAnchorsInText ==
    Expanded =>
        \A text \in {resume_text, job_text} :
            _enhance_with_synonyms(text)
                = lower(text) \o SynonymsFor(lower(text), skill_synonyms)

\* C29: a keyword of both texts is in the same category on both sides, so
\* in every result matches.all is the union of the three category matches,
\* total_matches is the sum of their sizes, and the three missing sets
\* together are job.all minus resume.all.
C29_CategoryMatchesCoverAllMatches ==
    Scored =>
        LET r == analysis_result
            resume == KeywordsOf(matcher.nlp, resume_text, pipeline)
            job == KeywordsOf(matcher.nlp, job_text, pipeline)
        IN /\ r.matches.all
                = r.matches.technical \cup r.matches.soft_skills \cup r.matches.general
           /\ r.total_matches
                = Cardinality(r.matches.technical) + Cardinality(r.matches.soft_skills)
                  + Cardinality(r.matches.general)
           /\ r.missing.technical \cup r.missing.soft_skills \cup r.missing.general
                = job.all \ resume.all
           /\ \A k \in resume.all \cap job.all :
                 \A X \in Categories : k \in resume[X] <=> k \in job[X]

\* A result with matches in two categories and a missing keyword in the
\* third, for two different texts.
C29_Witness ==
    /\ Scored
    /\ analysis_result.matches.technical # {}
    /\ analysis_result.matches.general # {}
    /\ analysis_result.missing.soft_skills # {}
    /\ resume_text # job_text

HeadlineTypes == {"success", "improvement", "focus"}

SemanticTypes == {"semantic", "conceptual", "strength"}

\* The positions of the suggestions with a type in the set T.
OfTypes(T) == { i \in DOMAIN suggestions : suggestions[i].type \in T }

\* C21: stage 2 of generate_suggestions appends at most 3 suggestions, each
\* of type semantic, conceptual or strength, so that the list holds exactly
\* one suggestion of a headline type (success, improvement, focus): the
\* first.
C21_StageTwoAddsOnlySemanticTypes ==
    pc = "suggested" =>
        /\ Cardinality(OfTypes(SemanticTypes)) <= 3
        /\ OfTypes(HeadlineTypes) = {1}

\* C22: generate_suggestions returns at most one suggestion of type
\* strategy; it is there only if keyword_score and semantic_score differ by
\* more than 20 points, its text says which of the two is ahead, and when
\* fewer than 8 suggestions precede it, it is there exactly when the scores
\* differ by more than 20.
C22_AtMostOneStrategyByScoreGap ==
    pc = "suggested" =>
        LET keyword == analysis_result.keyword_score
            semantic == analysis_result.semantic_score
            strategies == OfTypes({"strategy"})
        IN /\ Cardinality(strategies) <= 1
           /\ \A i \in strategies :
                 /\ i = Len(suggestions)
                 /\ keyword > semantic + 200 \/ semantic > keyword + 200
                 /\ keyword > semantic + 200 =>
                        StartsWith(suggestions[i].text, "Strong keyword coverage!")
                 /\ semantic > keyword + 200 =>
                        StartsWith(suggestions[i].text, "Good conceptual alignment!")
           /\ (strategies = {} /\ Len(suggestions) < 8) =>
                 (keyword <= semantic + 200 /\ semantic <= keyword + 200)

\* Suggestions that end with the strategic advice for a semantic score
\* ahead of the keyword score.
C22_Witness ==
    /\ pc = "suggested"
    /\ OfTypes({"strategy"}) # {}
    /\ analysis_result.semantic_score > analysis_result.keyword_score + 200

\* Eight suggestions precede the strategic advice, which is cut.
C22_WitnessCut ==
    /\ pc = "suggested"
    /\ OfTypes({"strategy"}) = {}
    /\ Len(suggestions) = 8
    /\ analysis_result.semantic_score > analysis_result.keyword_score + 200

(***************************************************************************)
(* Claims about the semantic analysis from its segments on (SegSpec)       *)
(***************************************************************************)

\* The call took the vectorized path: both texts have segments and
\* fit_transform and cosine_similarity returned.
VectorizedCall ==
    /\ segments.called
    /\ segments.resume # <<>>
    /\ segments.job # <<>>
    /\ ~vec.raised

\* The call was answered by _fallback_similarity_analysis.
FallbackCall == segments.called /\ ~VectorizedCall

\* The greatest similarity of job segment i to a resume segment.
MaxSimilarity(i) ==
    CHOOSE x \in { vec.matrix[<<r, i>>] : r \in 1..Len(segments.resume) } :
        \A r \in 1..Len(segments.resume) : vec.matrix[<<r, i>>] <= x

JobIndices == 1..Len(segments.job)

\* The job segments with a greatest similarity in the set S, as indices.
JobsWithin(S) == { i \in JobIndices : MaxSimilarity(i) \in S }

\* The positions of the entries of semantic_matches for job segment i.
MatchEntries(matches, i) ==
    { p \in DOMAIN matches : matches[p].job_sentence = segments.job[i] }

\* The positions of job segment i in missing_concepts.
MissingEntries(i) ==
    { p \in DOMAIN semantic_analysis.missing_concepts :
         semantic_analysis.missing_concepts[p] = segments.job[i] }

AboveMatch == { x \in 0..100 : x > 30 }
AboveStrong == { x \in 0..100 : x > 50 }
BelowGap == { x \in 0..100 : x < 20 }

\* C13 (as the code has it): a job segment whose greatest similarity is
\* exactly 0.3 is not recorded as a semantic match, the match threshold
\* being exclusive: a segment is a match only above 0.3.
C13_ExactlyThresholdIsNoMatch ==
    VectorizedCall =>
        \A i \in JobsWithin({30}) :
            /\ MatchEntries(semantic_analysis.semantic_matches, i) = {}
            /\ MatchEntries(semantic_analysis.strong_matches, i) = {}

\* C13 (as stated): a job segment whose greatest similarity is exactly 0.3
\* is recorded as a semantic match, the threshold being inclusive.
C13_ExactlyThresholdIsMatch ==
    VectorizedCall =>
        \A i \in JobsWithin({30}) :
            MatchEntries(semantic_analysis.semantic_matches, i) # {}

\* A vectorized call with a job segment at exactly 0.3 and another above.
C13_Witness ==
    /\ VectorizedCall
    /\ JobsWithin({30}) # {}
    /\ JobsWithin({31}) # {}
    /\ Len(semantic_analysis.semantic_matches) = Cardinality(JobsWithin({31}))

\* C17: on the vectorized path a job segment with greatest similarity m is
\* in semantic_matches iff m > 0.3, in strong_matches iff m > 0.5 and a
\* missing concept (before the cut to ten) iff m < 0.2; strong_matches is
\* a subset of semantic_matches, no segment is both a match and a missing
\* concept, each segment gives at most one entry of each list, and a
\* segment with 0.2 <= m <= 0.3 is in none.
C17_SegmentsAreClassifiedByThresholds ==
    VectorizedCall =>
        LET sa == semantic_analysis
            missing == Cardinality(JobsWithin(BelowGap))
        IN /\ \A i \in JobIndices :
                 /\ Cardinality(MatchEntries(sa.semantic_matches, i))
                        = (IF MaxSimilarity(i) > 30 THEN 1 ELSE 0)
                 /\ Cardinality(MatchEntries(sa.strong_matches, i))
                        = (IF MaxSimilarity(i) > 50 THEN 1 ELSE 0)
                 /\ Cardinality(MissingEntries(i)) <= 1
                 /\ MissingEntries(i) # {} => MaxSimilarity(i) < 20
                 /\ (MaxSimilarity(i) < 20 /\ missing <= 10) => MissingEntries(i) # {}
                 /\ ~(MatchEntries(sa.semantic_matches, i) # {} /\ MissingEntries(i) # {})
                 /\ (MaxSimilarity(i) >= 20 /\ MaxSimilarity(i) <= 30) =>
                        /\ MatchEntries(sa.semantic_matches, i) = {}
                        /\ MatchEntries(sa.strong_matches, i) = {}
                        /\ MissingEntries(i) = {}
           /\ SeqToSet(sa.strong_matches) \subseteq SeqToSet(sa.semantic_matches)
           /\ Len(sa.semantic_matches) = Cardinality(JobsWithin(AboveMatch))
           /\ Len(sa.strong_matches) = Cardinality(JobsWithin(AboveStrong))
           /\ \A p \in DOMAIN sa.semantic_matches :
                 \E i \in JobIndices :
                     /\ sa.semantic_matches[p].job_sentence = segments.job[i]
                     /\ sa.semantic_matches[p].similarity = MaxSimilarity(i)

\* A vectorized call of two resume segments with a strong match, a missing
\* concept and a job segment at a threshold that is neither, the second
\* resume segment being the closer one of some job segment.
C17_Witness ==
    /\ VectorizedCall
    /\ Len(segments.resume) = 2
    /\ \E i \in JobIndices : vec.matrix[<<1, i>>] < vec.matrix[<<2, i>>]
    /\ JobsWithin(AboveStrong) # {}
    /\ JobsWithin({20, 30}) # {}
    /\ JobsWithin(BelowGap) # {}
    /\ Len(semantic_analysis.strong_matches) > 0
    /\ Len(semantic_analysis.strong_matches) < Len(segments.job)

\* The p-th index, in increasing order, of the set S of indices.
NthOf(S, p) == CHOOSE i \in S : Cardinality({ j \in S : j < i }) = p - 1

\* C18: missing_concepts has at most 10 entries, and they are the first 10
\* job segments, in job-segment order, whose greatest similarity is below
\* the gap threshold; semantic_matches is in job-segment order.
C18_MissingConceptsAreFirstTenInOrder ==
    VectorizedCall =>
        LET sa == semantic_analysis
            low == JobsWithin(BelowGap)
            matched == JobsWithin(AboveMatch)
        IN /\ Len(sa.missing_concepts) <= 10
           /\ Len(sa.missing_concepts) = Min(10, Cardinality(low))
           /\ \A p \in DOMAIN sa.missing_concepts :
                 sa.missing_concepts[p] = segments.job[NthOf(low, p)]
           /\ Len(sa.semantic_matches) = Cardinality(matched)
           /\ \A p \in DOMAIN sa.semantic_matches :
                 sa.semantic_matches[p].job_sentence = segments.job[NthOf(matched, p)]

\* A vectorized call with more than ten job segments below the gap
\* threshold, of which ten are kept.
C18_Witness ==
    /\ VectorizedCall
    /\ Cardinality(JobsWithin(BelowGap)) > 10
    /\ Len(semantic_analysis.missing_concepts) = 10

\* The entries of the similarity matrix with a value in the set S.
EntriesWithin(S) == { c \in DOMAIN vec.matrix : vec.matrix[c] \in S }

\* The percentage p is the share of the set of entries E in the matrix.
IsShareOf(p, E) ==
    QEq(p, Q(Cardinality(E) * 100, Cardinality(DOMAIN vec.matrix)))

GapLabels ==
    <<"Technical skills and programming experience",
      "Leadership and project management experience",
      "Communication and collaboration skills">>

GapFamilies == <<tech_keywords, management_keywords, communication_keywords>>

\* The labels of the families in F, in the order technical, management,
\* communication.
LabelsOf(F) ==
    (IF 1 \in F THEN <<GapLabels[1]>> ELSE <<>>)
    \o (IF 2 \in F THEN <<GapLabels[2]>> ELSE <<>>)
    \o (IF 3 \in F THEN <<GapLabels[3]>> ELSE <<>>)

\* A keyword of family f occurs in the lower-cased text of the concepts.
OccursIn(f, concepts) ==
    \E k \in SeqToSet(GapFamilies[f]) : Contains(k, lower(Join(" ", concepts)))

\* C27: in every SemanticAnalysis conceptual_gaps holds at most three
\* labels in the order technical, management, communication, and a label
\* is there only if a keyword of its family occurs in the lower-cased text
\* of the missing_concepts that are returned (the list cut to 10), not in
\* a missing concept that was cut.  Stated for the analyses of the
\* vectorized path, where the labels are computed.
C27_GapsAreJustifiedByReturnedConcepts ==
    VectorizedCall =>
        \E F \in SUBSET (1..3) :
            /\ semantic_analysis.conceptual_gaps = LabelsOf(F)
            /\ \A f \in F : OccursIn(f, semantic_analysis.missing_concepts)


(***************************************************************************)
(* Claims about the bands of the two assessments (BandSpec)                *)
(***************************************************************************)

Suggested == pc \in {"suggested", "resuggested"}

HasType(t) == \E i \in DOMAIN suggestions : suggestions[i].type = t

\* C30: the list generate_suggestions returns for a result of
\* calculate_match_score never holds both a suggestion of type success and
\* a suggestion of type focus.
C30_NoSuccessBesideFocus ==
    Suggested => ~(HasType("success") /\ HasType("focus"))

\* The opposite pair never occurs: a focus headline beside a success
\* assessment.
C30_NoFocusHeadlineBesideSuccess ==
    Suggested => ~(suggestions[1].type = "focus" /\ suggestions[2].type = "success")

====
